---- MODULE Spec2Model ----
(***************************************************************************)
(* A model of beardist: the target descriptor (target_spec.rs), the        *)
(* install-name rewriter of the cargo build driver (cargo.rs) and the      *)
(* archive upload (main.rs).                                               *)
(*                                                                         *)
(* Strings are sequences of tokens.  A token is an indivisible piece of    *)
(* text; the separators the code looks at ("-", "/") and the affixes it    *)
(* tests ("lib", ".dylib") are tokens of their own, so that format!,       *)
(* split, starts_with and ends_with are computed on the sequence as the    *)
(* code computes them on the characters.                                   *)
(***************************************************************************)
EXTENDS Integers, Sequences, FiniteSets, TLC

VARIABLES
    target_spec,    \* TargetSpec: arch, vendor, os, env (target_spec.rs)
    tpc,            \* position of the caller of full_name()
    triple,         \* the String full_name() returned
    \* --- the build output directory, as the rewriter finds it
    dir_is_link,    \* whether cargo_out_dir() is reached through a symlink
    entries,        \* the directory: file name -> [kind, target]
    macho,          \* the Mach-O files: real file name -> load commands
    bins,           \* config.bins
    \* --- CargoBuildContext::build from the call of fix_install_names on
    pc,             \* position in build() / fix_install_names()
    our_libraries,  \* HashSet of the file names of the libraries we own
    dylibs_to_fix,  \* Vec of the paths to rewrite (the worklist)
    bin_i,          \* index into config.bins of the "Add binaries" loop
    cur,            \* index into dylibs_to_fix of the file being fixed
    dependencies,   \* what is left of get_dependencies()'s list for that file
    verify_deps,    \* the last verification read
    invoked,        \* the external tool invocations of this process
    result,         \* what fix_install_names returned: "none", "Ok", "Err"
    exit_code,      \* 0 while the process runs, else what it exited with
    runs,           \* 1 in the first run of the build on this directory, 2 in the second
    before,         \* macho as it was when the current run started
    rewritten,      \* macho as the first run left it
    \* --- BuildContext::upload_package (main.rs)
    upc,            \* position in upload_package
    file_len,       \* file_content.len(), the size of the archive in bytes
    is_dry_run,     \* BuildContext::is_dry_run
    requests,       \* the requests sent to the release host, in order
    release_reply,  \* what came of the fetch of the release, <<>> before it
    responses,      \* what came of each upload attempt, in order
    attempt,        \* the retry loop's counter
    last_error,     \* the retry loop's last_error: "none", "server", "request"
    upload_result,  \* what upload_package returned: "none", "Ok", "Err"
    upload_error,   \* which error it returned, "none" if none
    \* --- build(), the `build` command (main.rs)
    mpc,            \* position in build() and in CargoBuildContext::build
    cfg,            \* what build() finds: the config file, the environment
    out_bins,       \* the configured binaries in the output directory
    chk_i,          \* index into config.bins of the existence check
    packaged,       \* files_to_package
    done,           \* the stages gone through, each with its outcome, in order
    steps_left,     \* the custom steps not run yet
    main_result,    \* how build() ended: "none", "Ok", "Err", "panic", "exit"
    main_exit,      \* the exit code of the process, 0 while it runs
    \* --- external processes (command.rs, k8s.rs)
    plan,           \* the invocation sites a command goes through, in order
    pidx,           \* index into plan of the next invocation
    statuses,       \* how each child invoked so far ended, in order
    ppc,            \* "running", "exited"
    proc_exit,      \* the exit code of the program, 0 while it runs
    \* --- create_package_archive (main.rs)
    pkg_files,      \* files_to_package: the paths, as [dir, name]
    apc,            \* position in create_package_archive
    tar_cwd,        \* tar's working directory, moved by each -C
    tar_i,          \* index into pkg_files of tar's next operand
    members,        \* the members tar has written, in order
    package_file,   \* the archive's file name, <<>> before it is chosen
    \* --- HomebrewContext::update_formula (homebrew.rs)
    fpc,            \* position of the calling thread in update_formula
    threads,        \* each fetch thread's position
    slots,          \* what each JoinHandle holds for join()
    writes,         \* every write of a result: by which thread, to which slot
    formula,        \* the Binaries the formula is generated from, <<>> before
    tap_dry_run,    \* HomebrewContext::dry_run
    formula_file,   \* what was written to the formula's path, <<>> if nothing
    \* --- k8s, the manifests' update (k8s.rs)
    kpc,            \* position in k8s()
    scanned,        \* the manifest's text as collect_workspace read it
    occurrences,    \* Manifest::occurrences
    contents,       \* the loop's `contents`, then the text written back
    occ_i,          \* index into occurrences of the loop
    new_version,    \* the version the registry reported
    \* --- CargoBuildContext::build, libstd and the libraries (cargo.rs)
    target_libdir,  \* the file names of `rustc --print target-libdir`
    files_to_package \* the paths build() has pushed so far, in order

varsTriple == <<tpc, triple>>
varsDir == <<dir_is_link, entries, bins>>
varsFix == <<pc, our_libraries, dylibs_to_fix, bin_i, cur, dependencies,
             verify_deps, invoked, result, exit_code, runs, before, rewritten>>
varsUpload == <<upc, file_len, is_dry_run, requests, release_reply, responses, attempt,
                last_error,
                upload_result, upload_error>>
varsMain == <<mpc, cfg, out_bins, chk_i, packaged, done, steps_left, main_result,
              main_exit>>
varsProc == <<plan, pidx, statuses, ppc, proc_exit>>
varsArchive == <<pkg_files, apc, tar_cwd, tar_i, members, package_file>>
varsFormula == <<fpc, threads, slots, writes, formula>>
varsTap == <<tap_dry_run, formula_file>>
varsK8s == <<kpc, scanned, occurrences, contents, occ_i, new_version>>
varsLibstd == <<target_libdir, files_to_package>>
varsOther == <<varsProc, varsArchive, varsFormula, varsTap, varsK8s, varsLibstd>>
vars == <<target_spec, varsTriple, varsDir, macho, varsFix, varsUpload, varsMain, varsOther>>

\* The values the variables of the smaller commands keep in a specification
\* that does not run them.
ProcIdle ==
    /\ plan = <<>>
    /\ pidx = 1
    /\ statuses = <<>>
    /\ ppc = "idle"
    /\ proc_exit = 0

ArchiveIdle ==
    /\ pkg_files = <<>>
    /\ apc = "idle"
    /\ tar_cwd = <<>>
    /\ tar_i = 1
    /\ members = <<>>
    /\ package_file = <<>>

FormulaIdle ==
    /\ fpc = "idle"
    /\ threads = <<>>
    /\ slots = <<>>
    /\ writes = <<>>
    /\ formula = <<>>

TapIdle ==
    /\ tap_dry_run = FALSE
    /\ formula_file = <<>>

K8sIdle ==
    /\ kpc = "idle"
    /\ scanned = <<>>
    /\ occurrences = <<>>
    /\ contents = <<>>
    /\ occ_i = 1
    /\ new_version = <<>>

LibstdIdle == target_libdir = {} /\ files_to_package = <<>>

OtherIdle ==
    ProcIdle /\ ArchiveIdle /\ FormulaIdle /\ TapIdle /\ K8sIdle /\ LibstdIdle

\* The values the variables of build() keep in a specification that does
\* not run it.
MainIdle ==
    /\ mpc = "idle"
    /\ cfg = <<>>
    /\ out_bins = <<>>
    /\ chk_i = 1
    /\ packaged = <<>>
    /\ done = <<>>
    /\ steps_left = 0
    /\ main_result = "none"
    /\ main_exit = 0

\* The values the upload's variables keep in a specification that does not
\* run it.
UploadIdle ==
    /\ upc = "idle"
    /\ file_len = 0
    /\ is_dry_run = FALSE
    /\ requests = <<>>
    /\ release_reply = <<>>
    /\ responses = <<>>
    /\ attempt = 0
    /\ last_error = "none"
    /\ upload_result = "none"
    /\ upload_error = "none"

\* The values the rewriter's variables keep in a specification that does not
\* run it.
FixIdle ==
    /\ dir_is_link = FALSE
    /\ entries = <<>>
    /\ macho = <<>>
    /\ bins = <<>>
    /\ pc = "idle"
    /\ our_libraries = {}
    /\ dylibs_to_fix = <<>>
    /\ bin_i = 1
    /\ cur = 1
    /\ dependencies = <<>>
    /\ verify_deps = <<>>
    /\ invoked = {}
    /\ result = "none"
    /\ exit_code = 0
    /\ runs = 1
    /\ before = <<>>
    /\ rewritten = <<>>

-----------------------------------------------------------------------------
(* Strings *)

\* Option<String>
None == [some |-> FALSE, val |-> <<>>]
Some(s) == [some |-> TRUE, val |-> s]

\* str::is_empty
IsEmpty(s) == Len(s) = 0

\* str::starts_with / str::ends_with
StartsWith(s, p) == Len(s) >= Len(p) /\ SubSeq(s, 1, Len(p)) = p
EndsWith(s, p) == Len(s) >= Len(p) /\ SubSeq(s, Len(s) - Len(p) + 1, Len(s)) = p

\* str::split(sep): the pieces between the occurrences of the token sep
\* (always at least one piece, possibly empty).
RECURSIVE SplitFrom(_, _, _, _)
SplitFrom(s, sep, i, piece) ==
    IF i > Len(s) THEN <<piece>>
    ELSE IF s[i] = sep THEN <<piece>> \o SplitFrom(s, sep, i + 1, <<>>)
    ELSE SplitFrom(s, sep, i + 1, Append(piece, s[i]))

Split(s, sep) == SplitFrom(s, sep, 1, <<>>)

-----------------------------------------------------------------------------
(* Target descriptor: TargetSpec::full_name *)

Archs == { <<"aarch64">>, <<"x86_64">> }
Vendors == { None, Some(<<"apple">>), Some(<<"pc">>), Some(<<"unknown">>) }
OSes == { <<"macos">>, <<"linux">>, <<"windows">> }
Envs == { None, Some(<<>>), Some(<<"gnu">>), Some(<<"musl">>) }

Descriptors == [arch : Archs, vendor : Vendors, os : OSes, env : Envs]

\* Option::as_deref().unwrap_or(d)
UnwrapOr(o, d) == IF o.some THEN o.val ELSE d

\* A slip full_name could make: the env suffix appended whenever env is
\* present, empty or not.
full_name_env_unchecked(ts) ==
    LET os == IF ts.os = <<"macos">> THEN <<"darwin">> ELSE ts.os
        vendor == UnwrapOr(ts.vendor, <<"unknown">>)
    IN  IF ts.env.some
        THEN ts.arch \o <<"-">> \o vendor \o <<"-">> \o os \o <<"-">> \o ts.env.val
        ELSE ts.arch \o <<"-">> \o vendor \o <<"-">> \o os

full_name(ts) ==
    LET os == IF ts.os = <<"macos">> THEN <<"darwin">> ELSE ts.os
        arch == ts.arch
        vendor == UnwrapOr(ts.vendor, <<"unknown">>)
        env == UnwrapOr(ts.env, <<>>)
    IN  IF ~IsEmpty(env)
        THEN arch \o <<"-">> \o vendor \o <<"-">> \o os \o <<"-">> \o env
        ELSE arch \o <<"-">> \o vendor \o <<"-">> \o os

InitTriple ==
    /\ target_spec \in Descriptors
    /\ tpc = "start"
    /\ triple = <<>>
    /\ FixIdle
    /\ UploadIdle
    /\ MainIdle
    /\ OtherIdle

\* cargo_target_dir() and build() ask the descriptor for its triple.
CallFullName ==
    /\ tpc = "start"
    /\ triple' = full_name(target_spec)
    /\ tpc' = "named"
    /\ UNCHANGED <<target_spec, varsDir, macho, varsFix, varsUpload, varsMain, varsOther>>

NextTriple == CallFullName

SpecTriple == InitTriple /\ [][NextTriple]_vars

\* C1: full_name() is arch-vendor-os[-env]: split at the hyphens it has three
\* components, or four when env is present and non-empty; the first is arch,
\* the second the vendor or "unknown" when absent, the third "darwin" for
\* os "macos" and the os unchanged otherwise, the fourth the env; and the
\* two triples the specification names come out as written.
C1_Components ==
    tpc = "named" =>
        LET c == Split(triple, "-")
            hasEnv == target_spec.env.some /\ target_spec.env.val # <<>>
        IN  /\ Len(c) = IF hasEnv THEN 4 ELSE 3
            /\ c[1] = target_spec.arch
            /\ c[2] = IF target_spec.vendor.some THEN target_spec.vendor.val
                      ELSE <<"unknown">>
            /\ c[3] = IF target_spec.os = <<"macos">> THEN <<"darwin">>
                      ELSE target_spec.os
            /\ hasEnv => c[4] = target_spec.env.val
            /\ (target_spec = [arch |-> <<"aarch64">>, vendor |-> Some(<<"apple">>),
                               os |-> <<"macos">>, env |-> None])
                   => triple = <<"aarch64", "-", "apple", "-", "darwin">>
            /\ (target_spec = [arch |-> <<"x86_64">>, vendor |-> None,
                               os |-> <<"linux">>, env |-> Some(<<"gnu">>)])
                   => triple = <<"x86_64", "-", "unknown", "-", "linux", "-", "gnu">>

\* A descriptor with an empty env has been named, in three components.
C1_Witness ==
    /\ tpc = "named"
    /\ target_spec.env = Some(<<>>)
    /\ target_spec.os = <<"macos">>
    /\ ~target_spec.vendor.some
    /\ triple = <<"aarch64", "-", "unknown", "-", "darwin">>

-----------------------------------------------------------------------------
(* Paths and the build output directory *)

\* cargo_out_dir() as build() joins it, and where that directory really is
\* when a component of $BEARDIST_CACHE_DIR is a symbolic link.
GivenDir == <<"/", "cache", "/", "release">>
RealDir == <<"/", "mnt", "/", "release">>

\* Utf8PathBuf::join
Join(dir, name) == dir \o <<"/">> \o name

\* Path::file_name, and dep.split('/').next_back().unwrap()
LastComponent(path) == LET c == Split(path, "/") IN c[Len(c)]

\* Path::parent
Parent(path) == SubSeq(path, 1, Len(path) - Len(LastComponent(path)) - 1)

\* The names a file of the directory can have.
N_foo == <<"lib", "foo", ".dylib">>
N_foo1 == <<"lib", "foo", ".1.0", ".dylib">>
N_bar == <<"lib", "bar", ".dylib">>
N_bin == <<"mybin">>
N_binreal == <<"mybin", ".real">>
N_deps == <<"deps">>

File == [kind |-> "file", target |-> <<>>]
Dir == [kind |-> "dir", target |-> <<>>]
Symlink(t) == [kind |-> "symlink", target |-> t]

\* The directory after `cargo build`: libfoo is a real file, or a symlink to
\* the versioned libfoo.1.0; libbar is there or not; the binary is a real
\* file or a symlink; deps/ is there or not.
EntriesFor(fooKind, barThere, binKind, depsThere) ==
    LET names == (IF fooKind = "symlink" THEN {N_foo, N_foo1} ELSE {N_foo})
                 \cup (IF barThere THEN {N_bar} ELSE {})
                 \cup (IF binKind = "symlink" THEN {N_bin, N_binreal} ELSE {N_bin})
                 \cup (IF depsThere THEN {N_deps} ELSE {})
    IN  [n \in names |->
            IF n = N_foo /\ fooKind = "symlink" THEN Symlink(N_foo1)
            ELSE IF n = N_bin /\ binKind = "symlink" THEN Symlink(N_binreal)
            ELSE IF n = N_deps THEN Dir
            ELSE File]

\* Longest chain of symbolic links the model's directories hold.
MaxLinkDepth == 2

\* The real file a name of the directory leads to, following symbolic links;
\* None when the name, or a link's target, does not exist.
RECURSIVE ResolveName(_, _)
ResolveName(n, fuel) ==
    IF n \notin DOMAIN entries THEN None
    ELSE IF entries[n].kind # "symlink" THEN Some(n)
    ELSE IF fuel = 0 THEN None
    ELSE ResolveName(entries[n].target, fuel - 1)

\* realpath(3) of a path into the directory: no component of the result is a
\* symbolic link.
RealDirOf(d) == IF d = GivenDir /\ dir_is_link THEN RealDir ELSE d

Realpath(path) ==
    LET r == ResolveName(LastComponent(path), MaxLinkDepth)
    IN  IF Parent(path) \in {GivenDir, RealDir} /\ r.some
        THEN Some(Join(RealDirOf(Parent(path)), r.val))
        ELSE None

\* Path::is_symlink
IsSymlink(path) ==
    /\ LastComponent(path) \in DOMAIN entries
    /\ entries[LastComponent(path)].kind = "symlink"

\* The Mach-O file a tool opens when it is given `path`: None when the path
\* leads to no Mach-O file.
OpenMachO(path) ==
    LET r == ResolveName(LastComponent(path), MaxLinkDepth)
    IN  IF Parent(path) \in {GivenDir, RealDir} /\ r.some /\ r.val \in DOMAIN macho
        THEN r
        ELSE None

-----------------------------------------------------------------------------
(* Mach-O files and the two native tools, otool and install_name_tool *)

\* The dependency references a linked file can hold: a system library, the
\* absolute build-tree path of libfoo, libfoo already relocatable, a
\* libbar under /usr/lib, and the versioned libfoo as a bare name.
R_sys == <<"/", "usr", "/", "lib", "/", "lib", "System", ".B", ".dylib">>
R_foo_abs == GivenDir \o <<"/", "deps", "/">> \o N_foo
R_foo_rpath == <<"@rpath", "/">> \o N_foo
R_bar_usr == <<"/", "usr", "/", "lib", "/">> \o N_bar
R_foo1_bare == N_foo1

AllRefs == <<R_sys, R_foo_abs, R_foo_rpath, R_bar_usr, R_foo1_bare>>

\* Most LC_LOAD_DYLIB commands a file of the model holds.
MaxDeps == 2

\* The dependency lists of the libraries: the first references of LibRefs.
LibRefs == <<R_bar_usr, R_foo_abs, R_sys, R_foo_rpath, R_foo1_bare>>
LibDepLists == { SubSeq(LibRefs, 1, k) : k \in 0..MaxDeps }

\* The dependency lists of at most MaxDeps references, in link order.
DepLists ==
    { SelectSeq(AllRefs, LAMBDA r : r \in S) :
        S \in { T \in SUBSET { AllRefs[i] : i \in DOMAIN AllRefs } : Cardinality(T) <= MaxDeps } }

LoadCmd(c, n) == [cmd |-> c, name |-> n]

\* A linked file as the linker leaves it: a dylib carries its identity (the
\* path it was linked at), an executable none.
MachOFile(isLib, self, deps) ==
    <<LoadCmd("LC_SEGMENT_64", <<"__TEXT">>)>>
    \o (IF isLib
        THEN <<LoadCmd("LC_ID_DYLIB", GivenDir \o <<"/", "deps", "/">> \o self)>>
        ELSE <<>>)
    \o [i \in 1..Len(deps) |-> LoadCmd("LC_LOAD_DYLIB", deps[i])]
    \o <<LoadCmd("LC_RPATH", <<"@executable_path">>)>>

\* The commands install_name_tool -change rewrites.
DylibLoadCmds ==
    {"LC_LOAD_DYLIB", "LC_LOAD_WEAK_DYLIB", "LC_REEXPORT_DYLIB",
     "LC_LAZY_LOAD_DYLIB", "LC_LOAD_UPWARD_DYLIB"}

\* `otool -l path`: the lines printed for one load command.
OtoolCmdLines(c) ==
    << <<"Load", " ", "command">>,
       <<" ", " ", "cmd", " ", c.cmd>>,
       <<" ", "cmdsize", " ", "56">> >>
    \o (IF c.cmd \in DylibLoadCmds \cup {"LC_ID_DYLIB"}
        THEN << <<" ", " ", "name", " ">> \o c.name \o <<" ", "(offset", " ", "24)">>,
                <<" ", "current", " ", "version", " ", "1.0.0">> >>
        ELSE IF c.cmd = "LC_RPATH"
        THEN << <<" ", " ", "path", " ">> \o c.name \o <<" ", "(offset", " ", "12)">> >>
        ELSE << <<" ", "segname", " ">> \o c.name >>)

RECURSIVE OtoolLinesFrom(_, _)
OtoolLinesFrom(cmds, i) ==
    IF i > Len(cmds) THEN <<>>
    ELSE OtoolCmdLines(cmds[i]) \o OtoolLinesFrom(cmds, i + 1)

\* `otool -l path`, for a path that leads to a Mach-O file.
Otool(path) ==
    << path \o <<":">> >> \o OtoolLinesFrom(macho[OpenMachO(path).val], 1)

\* `install_name_tool -change old new path`: the load commands of the file.
ToolChange(cmds, old, new) ==
    [i \in DOMAIN cmds |->
        IF cmds[i].cmd \in DylibLoadCmds /\ cmds[i].name = old
        THEN LoadCmd(cmds[i].cmd, new)
        ELSE cmds[i]]

\* `install_name_tool -id id path`.
ToolId(cmds, id) ==
    [i \in DOMAIN cmds |->
        IF cmds[i].cmd = "LC_ID_DYLIB" THEN LoadCmd(cmds[i].cmd, id) ELSE cmds[i]]

\* One external tool invocation, as run_command / get_cmd_stdout starts it.
Invocation(tool, op, a1, a2, file) ==
    [tool |-> tool, op |-> op, a1 |-> a1, a2 |-> a2, file |-> file]

-----------------------------------------------------------------------------
(* get_dependencies: the scan of `otool -l` *)

\* str::trim
RECURSIVE TrimStart(_)
TrimStart(s) == IF s # <<>> /\ Head(s) = " " THEN TrimStart(Tail(s)) ELSE s

RECURSIVE TrimEnd(_)
TrimEnd(s) ==
    IF s # <<>> /\ s[Len(s)] = " " THEN TrimEnd(SubSeq(s, 1, Len(s) - 1)) ELSE s

Trim(s) == TrimEnd(TrimStart(s))

\* str::split_whitespace
SplitWhitespace(s) == SelectSeq(Split(s, " "), LAMBDA w : w # <<>>)

RECURSIVE ScanLines(_, _, _, _)
ScanLines(lines, i, in_load_dylib, deps) ==
    IF i > Len(lines) THEN deps
    ELSE IF StartsWith(Trim(lines[i]), <<"cmd", " ", "LC_LOAD_DYLIB">>)
    THEN ScanLines(lines, i + 1, TRUE, deps)
    ELSE IF in_load_dylib /\ StartsWith(Trim(lines[i]), <<"name">>)
    THEN LET parts == SplitWhitespace(lines[i])
         IN  ScanLines(lines, i + 1, FALSE,
                       IF Len(parts) > 1 THEN Append(deps, parts[2]) ELSE deps)
    ELSE ScanLines(lines, i + 1, in_load_dylib, deps)

\* A slip: the name line of any command taken, not only after
\* LC_LOAD_DYLIB.
RECURSIVE ScanNames(_, _, _)
ScanNames(lines, i, deps) ==
    IF i > Len(lines) THEN deps
    ELSE IF StartsWith(Trim(lines[i]), <<"name">>)
    THEN LET parts == SplitWhitespace(lines[i])
         IN  ScanNames(lines, i + 1,
                       IF Len(parts) > 1 THEN Append(deps, parts[2]) ELSE deps)
    ELSE ScanNames(lines, i + 1, deps)

get_any_names(output) == ScanNames(output, 1, <<>>)

get_dependencies(output) == ScanLines(output, 1, FALSE, <<>>)

-----------------------------------------------------------------------------
(* CargoBuildContext::build, from the call of fix_install_names on *)

\* file_name.starts_with("lib") && file_name.ends_with(".dylib")
IsDylibName(file_name) ==
    StartsWith(file_name, <<"lib">>) /\ EndsWith(file_name, <<".dylib">>)

\* format!("@rpath/{}", name)
RpathOf(name) == <<"@rpath", "/">> \o name

\* A slip: the relocatable prefix put before the whole reference.
NewPathOfWholeDep(dep) == RpathOf(dep)

\* dep_name = dep.split('/').next_back(); new_path = format!("@rpath/{}", dep_name)
NewPath(dep) == RpathOf(LastComponent(dep))

\* A slip: every reference taken for a library of ours.
IsOurLibraryAlways(dep_name) == TRUE

\* A slip: a library counts as ours only once the loop has reached it.
IsOurLibrarySoFar(dep_name) ==
    dep_name \in { LastComponent(dylibs_to_fix[j]) : j \in 1..cur }

\* our_libraries.contains(dep_name)
IsOurLibrary(dep_name) == dep_name \in our_libraries

\* A slip: the identity set on every file of the worklist.
SetsOwnIdAlways(file_name) == TRUE

\* "Set the id of the dylib itself (skip for the main binary)"
SetsOwnId(file_name) == IsDylibName(file_name)

\* A slip: linux taken for an OS with rewritable load commands.
SkipsRewriteOnWindowsOnly(os) == os = <<"windows">>

\* if self.target_spec.os != "macos" { return Ok(()) }
SkipsRewrite(os) == os # <<"macos">>

\* files_to_package, as build() has collected it before it calls
\* fix_install_names: the configured binaries, then the lib*<dll_suffix>
\* entries of the output directory.
PackagedBins == { Join(GivenDir, bins[i]) : i \in DOMAIN bins }
PackagedLibs ==
    { Join(GivenDir, n) :
        n \in { m \in DOMAIN entries :
                  StartsWith(m, <<"lib">>) /\ EndsWith(m, target_spec.dll_suffix) } }

FixTargets ==
    { [arch |-> <<"aarch64">>, vendor |-> Some(<<"apple">>), os |-> <<"macos">>,
       env |-> None, dll_suffix |-> <<".dylib">>],
      [arch |-> <<"x86_64">>, vendor |-> None, os |-> <<"linux">>,
       env |-> Some(<<"gnu">>), dll_suffix |-> <<".so">>],
      [arch |-> <<"x86_64">>, vendor |-> Some(<<"pc">>), os |-> <<"windows">>,
       env |-> Some(<<"msvc">>), dll_suffix |-> <<".dll">>] }

\* The Mach-O files of a directory: its regular files.
MachONames(e) == { n \in DOMAIN e : e[n].kind = "file" }

TripleIdle == tpc = "idle" /\ triple = <<>>

InitFix ==
    /\ target_spec \in FixTargets
    /\ dir_is_link \in BOOLEAN
    /\ bins = <<N_bin>>
    /\ \E fooKind \in {"file", "symlink"}, barThere \in BOOLEAN,
          binKind \in {"file", "symlink"}, depsThere \in BOOLEAN,
          libDeps \in LibDepLists, binDeps \in DepLists :
            \* one directory is enough where the rewriter does not look at it
            /\ (target_spec.os # <<"macos">> \/ ~depsThere)
                   => (libDeps = <<R_bar_usr>> /\ binDeps = <<R_foo_abs, R_bar_usr>>)
            /\ target_spec.os # <<"macos">>
                   => (fooKind = "symlink" /\ barThere /\ binKind = "file")
            /\ entries = EntriesFor(fooKind, barThere, binKind, depsThere)
            /\ macho = [n \in MachONames(EntriesFor(fooKind, barThere, binKind, depsThere)) |->
                          MachOFile(IsDylibName(n), n,
                                    IF IsDylibName(n) THEN libDeps ELSE binDeps)]
    /\ pc = "fix"
    /\ our_libraries = {}
    /\ dylibs_to_fix = <<>>
    /\ bin_i = 1
    /\ cur = 1
    /\ dependencies = <<>>
    /\ verify_deps = <<>>
    /\ invoked = {}
    /\ result = "none"
    /\ exit_code = 0
    /\ runs = 1
    /\ before = macho
    /\ rewritten = macho
    /\ TripleIdle
    /\ UploadIdle
    /\ MainIdle
    /\ OtherIdle

\* A slip: the deps directory taken to be there.
DepsDirAssumed(e) == TRUE

\* deps_dir.exists(), deps_dir being cargo_out_dir().join("deps")
DepsDirExists(e) == N_deps \in DOMAIN e

\* fix_install_names, up to the scan: a no-op on any OS but macos, and when
\* the deps directory is missing.
FixEnter ==
    /\ pc = "fix"
    /\ IF SkipsRewrite(target_spec.os) \/ ~DepsDirExists(entries)
       THEN /\ result' = "Ok"
            /\ pc' = "inspect"
       ELSE /\ pc' = "scan"
            /\ UNCHANGED result
    /\ UNCHANGED <<varsMain, varsOther, varsUpload, target_spec, varsTriple, varsDir, macho,
                   our_libraries, dylibs_to_fix,
                   bin_i, cur, dependencies, verify_deps, invoked, exit_code, runs,
                   before, rewritten>>

\* read_dir(), or one of its entries, fails: the error is returned.
ReadDirFails ==
    /\ pc = "scan"
    /\ result' = "Err"
    /\ pc' = "failed"
    /\ UNCHANGED <<varsMain, varsOther, varsUpload, target_spec, varsTriple, varsDir, macho,
                   our_libraries, dylibs_to_fix,
                   bin_i, cur, dependencies, verify_deps, invoked, exit_code, runs,
                   before, rewritten>>

\* A slip: a symbolic link left out of the owned set as well.
ScanOneSkippingLinks(st, path, canon) ==
    LET file_name == LastComponent(path)
    IN  IF IsDylibName(file_name) /\ ~IsSymlink(path)
        THEN [our |-> st.our \cup {file_name},
              fix |-> Append(st.fix, IF canon.some THEN canon.val ELSE path)]
        ELSE st

\* A slip: no is_symlink() test, a symbolic link pushed like a real file.
ScanOnePushingLinks(st, path, canon) ==
    LET file_name == LastComponent(path)
    IN  IF IsDylibName(file_name)
        THEN [our |-> st.our \cup {file_name},
              fix |-> Append(st.fix, IF canon.some THEN canon.val ELSE path)]
        ELSE st

\* A slip: a library whose path cannot be canonicalized left off the worklist.
ScanOneDroppingUncanonical(st, path, canon) ==
    LET file_name == LastComponent(path)
    IN  IF IsDylibName(file_name)
        THEN [our |-> st.our \cup {file_name},
              fix |-> IF ~IsSymlink(path) /\ canon.some
                      THEN Append(st.fix, canon.val) ELSE st.fix]
        ELSE st

\* What one directory entry adds to the owned set and to the worklist;
\* canon is what path.canonicalize() returned.
ScanOne(st, path, canon) ==
    LET file_name == LastComponent(path)
    IN  IF IsDylibName(file_name)
        THEN LET is_symlink == IsSymlink(path)
                 our == st.our \cup {file_name}
             IN  IF is_symlink
                 THEN [our |-> our, fix |-> st.fix]
                 ELSE IF canon.some
                      THEN [our |-> our, fix |-> Append(st.fix, canon.val)]
                      ELSE [our |-> our, fix |-> Append(st.fix, path)]
        ELSE st

\* The orders a set of names can be listed in.
Orders(S) ==
    { o \in [1..Cardinality(S) -> S] : \A i, j \in DOMAIN o : i # j => o[i] # o[j] }

\* The entries read_dir can yield for the output directory.  An entry that
\* is not named lib*.dylib leaves both collections alone, so the listings
\* differ in the order of the libraries only; the other entries come first.
Listings ==
    LET libs == { n \in DOMAIN entries : IsDylibName(n) }
        rest == CHOOSE o \in Orders(DOMAIN entries \ libs) : TRUE
    IN  { rest \o o : o \in Orders(libs) }

\* The names path.canonicalize() is called for.
Canonicalized ==
    { n \in DOMAIN entries : IsDylibName(n) /\ ~IsSymlink(Join(GivenDir, n)) }

\* The read_dir loop over `listing`, canonicalize() failing for `failing`.
RECURSIVE ScanFrom(_, _, _, _)
ScanFrom(listing, i, failing, st) ==
    IF i > Len(listing) THEN st
    ELSE LET path == Join(GivenDir, listing[i])
             canon == IF listing[i] \in failing THEN None ELSE Realpath(path)
         IN  ScanFrom(listing, i + 1, failing, ScanOne(st, path, canon))

\* "First, collect all our dylibs": the whole read_dir loop.
ScanDir ==
    /\ pc = "scan"
    /\ \E listing \in Listings, failing \in SUBSET Canonicalized :
        LET st == ScanFrom(listing, 1, failing, [our |-> {}, fix |-> <<>>])
        IN  /\ our_libraries' = st.our
            /\ dylibs_to_fix' = st.fix
    /\ pc' = "bins"
    /\ bin_i' = 1
    /\ UNCHANGED <<varsMain, varsOther, varsUpload, target_spec, varsTriple, varsDir, macho, cur, dependencies,
                   verify_deps, invoked, result, exit_code, runs, before, rewritten>>

\* One iteration of the "Add binaries" loop: binary_path.canonicalize()?
AddBinary ==
    /\ pc = "bins"
    /\ \E canon_ok \in BOOLEAN :
        LET binary_path == Join(GivenDir, bins[bin_i])
            canon == IF canon_ok THEN Realpath(binary_path) ELSE None
        IN  IF canon.some
            THEN /\ dylibs_to_fix' = Append(dylibs_to_fix, canon.val)
                 /\ bin_i' = bin_i + 1
                 /\ pc' = IF bin_i = Len(bins) THEN "file" ELSE "bins"
                 /\ cur' = 1
                 /\ UNCHANGED result
            ELSE /\ result' = "Err"
                 /\ pc' = "failed"
                 /\ UNCHANGED <<dylibs_to_fix, bin_i, cur>>
    /\ UNCHANGED <<varsMain, varsOther, varsUpload, target_spec, varsTriple, varsDir, macho, our_libraries,
                   dependencies, verify_deps, invoked, exit_code, runs, before, rewritten>>

\* The head of the "Fix each dylib" loop: get_dependencies(dylib_path).  A
\* tool that exits non-zero ends the process (command.rs).
GetDependencies ==
    /\ pc = "file"
    /\ cur <= Len(dylibs_to_fix)
    /\ \E ok \in BOOLEAN :
        LET path == dylibs_to_fix[cur]
        IN  /\ invoked' = invoked \cup {Invocation("otool", "-l", <<>>, <<>>, path)}
            /\ IF ok /\ OpenMachO(path).some
               THEN /\ dependencies' = get_dependencies(Otool(path))
                    /\ pc' = "deps"
                    /\ UNCHANGED exit_code
               ELSE /\ pc' = "exited"
                    /\ exit_code' = 1
                    /\ UNCHANGED dependencies
    /\ UNCHANGED <<varsMain, varsOther, varsUpload, target_spec, varsTriple, varsDir, macho, our_libraries,
                   dylibs_to_fix, bin_i, cur, verify_deps, result, runs, before, rewritten>>

\* One iteration of `for dep in dependencies`: change_dep for a library of
\* ours, nothing for any other.
ChangeDep ==
    /\ pc = "deps"
    /\ dependencies # <<>>
    /\ LET path == dylibs_to_fix[cur]
           dep == Head(dependencies)
           dep_name == LastComponent(dep)
           new_path == NewPath(dep)
       IN  IF IsOurLibrary(dep_name)
           THEN \E ok \in BOOLEAN :
                /\ invoked' = invoked \cup
                      {Invocation("install_name_tool", "-change", dep, new_path, path)}
                /\ IF ok /\ OpenMachO(path).some
                   THEN /\ macho' = [macho EXCEPT ![OpenMachO(path).val] =
                                        ToolChange(@, dep, new_path)]
                        /\ dependencies' = Tail(dependencies)
                        /\ UNCHANGED <<pc, exit_code>>
                   ELSE /\ pc' = "exited"
                        /\ exit_code' = 1
                        /\ UNCHANGED <<macho, dependencies>>
           ELSE /\ dependencies' = Tail(dependencies)
                /\ UNCHANGED <<macho, invoked, pc, exit_code>>
    /\ UNCHANGED <<varsMain, varsOther, varsUpload, target_spec, varsTriple, varsDir, our_libraries,
                   dylibs_to_fix, bin_i, cur, verify_deps, result, runs, before, rewritten>>

\* "Set the id of the dylib itself (skip for the main binary)".
SetId ==
    /\ pc = "deps"
    /\ dependencies = <<>>
    /\ LET path == dylibs_to_fix[cur]
           file_name == LastComponent(path)
           id == RpathOf(file_name)
       IN  IF SetsOwnId(file_name)
           THEN \E ok \in BOOLEAN :
                /\ invoked' = invoked \cup
                      {Invocation("install_name_tool", "-id", id, <<>>, path)}
                /\ IF ok /\ OpenMachO(path).some
                   THEN /\ macho' = [macho EXCEPT ![OpenMachO(path).val] = ToolId(@, id)]
                        /\ pc' = "verify"
                        /\ UNCHANGED exit_code
                   ELSE /\ pc' = "exited"
                        /\ exit_code' = 1
                        /\ UNCHANGED macho
           ELSE /\ pc' = "verify"
                /\ UNCHANGED <<macho, invoked, exit_code>>
    /\ UNCHANGED <<varsMain, varsOther, varsUpload, target_spec, varsTriple, varsDir, our_libraries,
                   dylibs_to_fix, bin_i, cur, dependencies, verify_deps, result, runs,
                   before, rewritten>>

\* A slip: the verification read made a gate, an owned reference that is
\* not of the form @rpath/<name> an error.
VerificationGate(deps) ==
    \A i \in DOMAIN deps :
        LastComponent(deps[i]) \in our_libraries => deps[i] = NewPath(deps[i])

\* What the loop makes of verify_deps: a debug! line.
VerificationLogged(deps) == TRUE

\* "Verify changes": the list is read again and logged, nothing else.
Verify ==
    /\ pc = "verify"
    /\ \E ok \in BOOLEAN :
        LET path == dylibs_to_fix[cur]
        IN  /\ invoked' = invoked \cup {Invocation("otool", "-l", <<>>, <<>>, path)}
            /\ IF ok /\ OpenMachO(path).some
               THEN /\ verify_deps' = get_dependencies(Otool(path))
                    /\ IF VerificationLogged(get_dependencies(Otool(path)))
                       THEN cur' = cur + 1 /\ pc' = "file" /\ UNCHANGED result
                       ELSE pc' = "failed" /\ result' = "Err" /\ UNCHANGED cur
                    /\ UNCHANGED exit_code
               ELSE /\ pc' = "exited"
                    /\ exit_code' = 1
                    /\ UNCHANGED <<verify_deps, cur, result>>
    /\ UNCHANGED <<varsMain, varsOther, varsUpload, target_spec, varsTriple, varsDir, macho, our_libraries,
                   dylibs_to_fix, bin_i, dependencies, runs, before, rewritten>>

\* A slip: the loop over the worklist left before its last file.
WorklistExhaustedAnywhere == TRUE

\* `for dylib_path in dylibs_to_fix` has no file left.
WorklistExhausted == cur > Len(dylibs_to_fix)

\* The worklist is exhausted: fix_install_names returns Ok(()).
FixReturn ==
    /\ pc = "file"
    /\ WorklistExhausted
    /\ result' = "Ok"
    /\ pc' = "inspect"
    /\ UNCHANGED <<varsMain, varsOther, varsUpload, target_spec, varsTriple, varsDir, macho, our_libraries,
                   dylibs_to_fix, bin_i, cur, dependencies, verify_deps, invoked,
                   exit_code, runs, before, rewritten>>

\* The inspection of every packaged binary and library: ldd and readelf on
\* linux, otool on macos, skipped with a warning elsewhere.
InspectionOf(files) ==
    IF target_spec.os = <<"linux">>
    THEN { Invocation("ldd", "", <<>>, <<>>, f) : f \in files }
         \cup { Invocation("readelf", "-d", <<>>, <<>>, f) : f \in files }
    ELSE IF target_spec.os = <<"macos">>
    THEN { Invocation("otool", "-L", <<>>, <<>>, f) : f \in files }
         \cup { Invocation("bash", "-c", <<"otool", " ", "-l">>, <<>>,
                           Join(GivenDir, bins[1])) }
    ELSE {}

Inspect ==
    /\ pc = "inspect"
    /\ \E ok \in BOOLEAN :
        /\ invoked' = invoked \cup InspectionOf(PackagedBins \cup PackagedLibs)
        /\ IF ok \/ InspectionOf(PackagedBins \cup PackagedLibs) = {}
           THEN pc' = "version" /\ UNCHANGED exit_code
           ELSE pc' = "exited" /\ exit_code' = 1
    /\ UNCHANGED <<varsMain, varsOther, varsUpload, target_spec, varsTriple, varsDir, macho, our_libraries,
                   dylibs_to_fix, bin_i, cur, dependencies, verify_deps, result, runs,
                   before, rewritten>>

\* `<bin> --version`, after which build() returns Ok(()) and the caller goes
\* on to the custom steps and the archive.
RunVersion ==
    /\ pc = "version"
    /\ \E ok \in BOOLEAN :
        /\ invoked' = invoked \cup
              {Invocation("bin", "--version", <<>>, <<>>, Join(GivenDir, bins[1]))}
        /\ IF ok
           THEN pc' = "built" /\ UNCHANGED exit_code
           ELSE pc' = "exited" /\ exit_code' = 1
    /\ UNCHANGED <<varsMain, varsOther, varsUpload, target_spec, varsTriple, varsDir, macho, our_libraries,
                   dylibs_to_fix, bin_i, cur, dependencies, verify_deps, result, runs,
                   before, rewritten>>

\* The build is run again on the directory the first run left behind.
Rebuild ==
    /\ pc = "built"
    /\ runs = 1
    /\ runs' = 2
    /\ before' = macho
    /\ rewritten' = macho
    /\ pc' = "fix"
    /\ our_libraries' = {}
    /\ dylibs_to_fix' = <<>>
    /\ bin_i' = 1
    /\ cur' = 1
    /\ dependencies' = <<>>
    /\ verify_deps' = <<>>
    /\ invoked' = {}
    /\ result' = "none"
    /\ UNCHANGED <<varsMain, varsOther, varsUpload, target_spec, varsTriple, varsDir, macho, exit_code>>

Next ==
    \/ FixEnter
    \/ ReadDirFails
    \/ ScanDir
    \/ AddBinary
    \/ GetDependencies
    \/ ChangeDep
    \/ SetId
    \/ Verify
    \/ FixReturn
    \/ Inspect
    \/ RunVersion
    \/ Rebuild

Spec == InitFix /\ [][Next]_vars

-----------------------------------------------------------------------------
(* The rewriter's properties *)

Range(s) == { s[i] : i \in DOMAIN s }

\* This run rewrites: the target is macos and deps/ is there.
Rewriting == target_spec.os = <<"macos">> /\ N_deps \in DOMAIN entries

\* The read_dir loop of this run has ended, and so has the "Add binaries" loop.
ScanComplete == Rewriting /\ pc \in {"bins", "file", "deps", "verify", "inspect",
                                      "version", "built", "exited"}
WorklistBuilt == ScanComplete /\ pc # "bins"

\* The loop over the dependencies of worklist file j has ended in this run.
DepsDone(j) ==
    \/ j < cur
    \/ j = cur /\ (pc = "verify" \/ (pc = "deps" /\ dependencies = <<>>))

\* The `-id` step of worklist file j is behind.
IdDone(j) == j < cur \/ (j = cur /\ pc = "verify")

\* C2: in a worklist file whose dependency loop has ended, every reference
\* the file held when the run began reads "@rpath/<final component>" if its
\* final path component is in the owned set, and reads as it did if not.
C2_RewriteIffOwned ==
    WorklistBuilt =>
        \A j \in DOMAIN dylibs_to_fix : DepsDone(j) =>
            LET f == OpenMachO(dylibs_to_fix[j]).val
            IN  \A k \in DOMAIN before[f] :
                    before[f][k].cmd = "LC_LOAD_DYLIB" =>
                        LET old == before[f][k].name
                            final == LastComponent(old)
                        IN  macho[f][k] =
                              LoadCmd("LC_LOAD_DYLIB",
                                      IF final \in our_libraries
                                      THEN <<"@rpath", "/">> \o final
                                      ELSE old)

\* With libfoo.dylib alone owned, a file's reference to libfoo has become
\* @rpath/libfoo.dylib and its reference to /usr/lib/libbar.dylib is as it was.
C2_Witness ==
    /\ pc = "verify"
    /\ runs = 1
    /\ our_libraries = {N_foo}
    /\ LET f == OpenMachO(dylibs_to_fix[cur]).val
       IN  \E k, l \in DOMAIN macho[f] :
              /\ before[f][k] = LoadCmd("LC_LOAD_DYLIB", R_foo_abs)
              /\ macho[f][k] = LoadCmd("LC_LOAD_DYLIB", R_foo_rpath)
              /\ before[f][l] = LoadCmd("LC_LOAD_DYLIB", R_bar_usr)
              /\ macho[f][l] = LoadCmd("LC_LOAD_DYLIB", R_bar_usr)

\* C3: once the scan has ended, a symbolic link named lib*.dylib is in the
\* owned set and so is the real file it points to; the real file is on the
\* worklist, the link is not, and install_name_tool is never given the link.
C3_SymlinkOwnedNotFixed ==
    ScanComplete =>
        \A n \in DOMAIN entries :
            (IsDylibName(n) /\ entries[n].kind = "symlink") =>
                /\ n \in our_libraries
                /\ entries[n].target \in our_libraries
                /\ \E i \in DOMAIN dylibs_to_fix :
                       LastComponent(dylibs_to_fix[i]) = entries[n].target
                /\ \A i \in DOMAIN dylibs_to_fix : LastComponent(dylibs_to_fix[i]) # n
                /\ \A inv \in invoked :
                       inv.tool = "install_name_tool" => LastComponent(inv.file) # n

\* libfoo.dylib is a link to libfoo.1.0.dylib, the run has ended, and the
\* real file is the one that was rewritten.
C3_Witness ==
    /\ pc = "built"
    /\ runs = 1
    /\ entries[N_foo] = Symlink(N_foo1)
    /\ {N_foo, N_foo1} \subseteq our_libraries
    /\ macho[N_foo1] # before[N_foo1]
    /\ \E inv \in invoked : inv.tool = "install_name_tool" /\ inv.op = "-id"
                            /\ LastComponent(inv.file) = N_foo1

\* The directory the output directory really is, the libraries in it that
\* are real files, and the real files the configured binaries lead to.
CanonDir == IF dir_is_link THEN RealDir ELSE GivenDir
RealLibs == { n \in DOMAIN entries : IsDylibName(n) /\ entries[n].kind = "file" }
BinFiles ==
    { IF entries[bins[i]].kind = "symlink" THEN entries[bins[i]].target ELSE bins[i] :
        i \in DOMAIN bins }

RewritesOnlyWorklist ==
    \A inv \in invoked :
        inv.tool = "install_name_tool" => inv.file \in Range(dylibs_to_fix)

C5_SecondRunChangesNothing ==
    runs = 2 => macho = rewritten

\* The second run has ended, after it gave install_name_tool a reference
\* that was relocatable already, on files whose identity the first run set.
C5_Witness ==
    /\ runs = 2
    /\ pc = "built"
    /\ result = "Ok"
    /\ \E inv \in invoked :
          inv.tool = "install_name_tool" /\ inv.op = "-change" /\ inv.a1 = inv.a2
    /\ \E f \in DOMAIN macho :
          \E k \in DOMAIN macho[f] :
              macho[f][k] = LoadCmd("LC_ID_DYLIB", <<"@rpath", "/">> \o f)

\* What a rewriting run is to leave of load commands `cmds` of file f, told
\* from the directory alone.
OwnedNames == { n \in DOMAIN entries : IsDylibName(n) }
Relocated(cmds, f) ==
    [k \in DOMAIN cmds |->
        IF cmds[k].cmd = "LC_LOAD_DYLIB" /\ LastComponent(cmds[k].name) \in OwnedNames
        THEN LoadCmd("LC_LOAD_DYLIB", <<"@rpath", "/">> \o LastComponent(cmds[k].name))
        ELSE IF cmds[k].cmd = "LC_ID_DYLIB"
        THEN LoadCmd("LC_ID_DYLIB", <<"@rpath", "/">> \o f)
        ELSE cmds[k]]

\* C6: whatever the order of the worklist, a rewriting run that has ended
\* leaves the same load commands, those the directory alone determines; and
\* no tool has run before the owned set held every library of the directory.
C6_OrderIndependent ==
    /\ (Rewriting /\ pc \in {"inspect", "version", "built"}) =>
          macho = [f \in DOMAIN before |->
                      IF f \in RealLibs \cup BinFiles
                      THEN Relocated(before[f], f) ELSE before[f]]
    /\ (Rewriting /\ invoked # {}) => our_libraries = OwnedNames
    /\ (Rewriting /\ pc \in {"scan", "bins"}) => invoked = {}

\* A run has ended in which libbar was rewritten before libfoo, and the
\* reference libbar held to libfoo is relocatable now.
C6_Witness ==
    /\ pc = "built"
    /\ runs = 1
    /\ Len(dylibs_to_fix) = 3
    /\ LastComponent(dylibs_to_fix[1]) = N_bar
    /\ LastComponent(dylibs_to_fix[2]) = N_foo
    /\ \E k \in DOMAIN macho[N_bar] :
          /\ before[N_bar][k] = LoadCmd("LC_LOAD_DYLIB", R_foo_abs)
          /\ macho[N_bar][k] = LoadCmd("LC_LOAD_DYLIB", R_foo_rpath)

\* C7: once the `-id` step of a worklist file is behind, install_name_tool
\* -id has been run on it, with "@rpath/<its file name>", if the file is a
\* library, and has not been run on it at all if it is an executable.
C7_IdOnlyForLibraries ==
    WorklistBuilt =>
        \A j \in DOMAIN dylibs_to_fix : IdDone(j) =>
            LET path == dylibs_to_fix[j]
                name == LastComponent(path)
                ids == { inv \in invoked : inv.tool = "install_name_tool"
                                           /\ inv.op = "-id" /\ inv.file = path }
            IN  IF StartsWith(name, <<"lib">>) /\ EndsWith(name, <<".dylib">>)
                THEN ids = {Invocation("install_name_tool", "-id",
                                       <<"@rpath", "/">> \o name, <<>>, path)}
                ELSE ids = {}

\* A run has ended that set the identity of libbar.dylib and rewrote a
\* reference of the executable.
C7_Witness ==
    /\ pc = "built"
    /\ runs = 1
    /\ Rewriting
    /\ N_bar \in DOMAIN macho
    /\ \E k \in DOMAIN macho[N_bar] :
          macho[N_bar][k] = LoadCmd("LC_ID_DYLIB", <<"@rpath", "/">> \o N_bar)
    /\ \E inv \in invoked :
          inv.tool = "install_name_tool" /\ inv.op = "-change"
          /\ LastComponent(inv.file) \in BinFiles

\* C8: on a target whose OS is not macos the rewriting step returns Ok at
\* once and the build goes on to the inspection; no file is changed and
\* neither otool -l nor install_name_tool is ever run.
C8_NoOpOffMacos ==
    /\ [][(pc = "fix" /\ target_spec.os # <<"macos">>) =>
              (pc' = "inspect" /\ result' = "Ok" /\ invoked' = invoked
               /\ macho' = macho /\ exit_code' = exit_code)]_vars
    /\ [](target_spec.os # <<"macos">> =>
              /\ macho = before
              /\ result # "Err"
              /\ \A inv \in invoked : inv.tool \notin {"install_name_tool", "otool"})

\* A linux build has gone through the rewriting step and the inspection,
\* and has run the binary.
C8_Witness ==
    /\ target_spec.os = <<"linux">>
    /\ pc = "built"
    /\ runs = 1
    /\ result = "Ok"
    /\ exit_code = 0
    /\ \E inv \in invoked : inv.tool = "ldd"

-----------------------------------------------------------------------------
(* BuildContext::upload_package: the size gate, the release, the upload *)

\* const MAX_RETRIES: usize = 3
MAX_RETRIES == 3

\* The sizes an archive can have, around the gate's threshold.
Sizes == {0, 10 * 1024 - 1, 10 * 1024, 10 * 1024 + 1}

\* A slip: an archive of exactly the threshold turned away too.
TooSmallOrJustEnough(len) == len <= 10 * 1024

\* file_content.len() < 10 * 1024
TooSmall(len) == len < 10 * 1024

\* A slip: every status of 400 and above taken for a server error.
IsServerErrorOrClientError(status) == status >= 400 /\ status < 600

\* StatusCode::is_success, StatusCode::is_server_error
IsSuccess(status) == status >= 200 /\ status < 300
IsServerError(status) == status >= 500 /\ status < 600

\* What comes of one request: send() fails, or a response arrives with a
\* status and a body.  The body is JSON with a numeric id ("id"), JSON
\* without one ("no_id"), or text that is not JSON ("text"); or reading it
\* fails ("broken").
TransportError == [sent |-> FALSE, status |-> 0, body |-> "none"]
Reply(status, body) == [sent |-> TRUE, status |-> status, body |-> body]

ReleaseReplies ==
    {TransportError}
    \cup { Reply(st, b) : st \in {200, 403, 404, 500}, b \in {"id", "no_id", "broken"} }
CreateReplies ==
    {TransportError}
    \cup { Reply(st, b) : st \in {201, 422}, b \in {"id", "no_id", "broken"} }
UploadReplies ==
    {TransportError}
    \cup { Reply(st, b) : st \in {100, 200, 302, 404, 500, 503},
                           b \in {"text", "broken"} }

InitUpload ==
    /\ target_spec \in { t \in FixTargets : t.os = <<"linux">> }
    /\ TripleIdle
    /\ FixIdle
    /\ MainIdle
    /\ OtherIdle
    /\ upc = "entry"
    /\ file_len \in Sizes
    /\ is_dry_run \in BOOLEAN
    /\ requests = <<>>
    /\ release_reply = <<>>
    /\ responses = <<>>
    /\ attempt = 0
    /\ last_error = "none"
    /\ upload_result = "none"
    /\ upload_error = "none"

\* upload_package returns.
Returns(res, err) ==
    /\ upc' = "returned"
    /\ upload_result' = res
    /\ upload_error' = err

\* The copy of the packaged files and of the archive to /tmp for inspection;
\* any of the file operations may fail, and `?` returns the error.
WriteInspectCopy ==
    /\ upc = "entry"
    /\ \E ok \in BOOLEAN :
        IF ok
        THEN upc' = "gate" /\ UNCHANGED <<upload_result, upload_error>>
        ELSE Returns("Err", "io")
    /\ UNCHANGED <<file_len, is_dry_run, requests, release_reply, responses, attempt,
                   last_error>>
    /\ UNCHANGED <<target_spec, varsTriple, varsDir, macho, varsFix, varsMain, varsOther>>

\* "Suspiciously small package size", then "Not uploading (dry run)".
SizeGate ==
    /\ upc = "gate"
    /\ IF TooSmall(file_len)
       THEN Returns("Err", "small")
       ELSE IF is_dry_run
       THEN Returns("Ok", "none")
       ELSE upc' = "fetch" /\ UNCHANGED <<upload_result, upload_error>>
    /\ UNCHANGED <<file_len, is_dry_run, requests, release_reply, responses, attempt,
                   last_error>>
    /\ UNCHANGED <<target_spec, varsTriple, varsDir, macho, varsFix, varsMain, varsOther>>

\* release_data["id"].as_u64().ok_or_else(..)?, after .json()?
ReleaseId(r) ==
    IF r.body = "id" THEN upc' = "loop" /\ UNCHANGED <<upload_result, upload_error>>
    ELSE IF r.body = "no_id" THEN Returns("Err", "id")
    ELSE Returns("Err", "json")

\* "Checking if release exists": GET .../releases/tags/<tag>.
FetchRelease ==
    /\ upc = "fetch"
    /\ requests' = Append(requests, "GET release")
    /\ \E r \in ReleaseReplies :
        /\ release_reply' = r
        /\ IF ~r.sent THEN Returns("Err", "request")
           ELSE IF ~IsSuccess(r.status)
           THEN upc' = "create" /\ UNCHANGED <<upload_result, upload_error>>
           ELSE ReleaseId(r)
    /\ UNCHANGED <<file_len, is_dry_run, responses, attempt, last_error>>
    /\ UNCHANGED <<target_spec, varsTriple, varsDir, macho, varsFix, varsMain, varsOther>>

\* "Release doesn't exist, creating one": POST .../releases.
CreateRelease ==
    /\ upc = "create"
    /\ requests' = Append(requests, "POST release")
    /\ \E r \in CreateReplies :
        IF ~r.sent THEN Returns("Err", "request")
        ELSE IF ~IsSuccess(r.status)
        THEN Returns("Err", IF r.body = "broken" THEN "body" ELSE "create")
        ELSE ReleaseId(r)
    /\ UNCHANGED <<file_len, is_dry_run, release_reply, responses, attempt, last_error>>
    /\ UNCHANGED <<target_spec, varsTriple, varsDir, macho, varsFix, varsMain, varsOther>>

\* One turn of `while attempt < MAX_RETRIES`: the asset is posted.
UploadAttempt ==
    /\ upc = "loop"
    /\ attempt < MAX_RETRIES
    /\ attempt' = attempt + 1
    /\ requests' = Append(requests, "POST asset")
    /\ \E r \in UploadReplies :
        /\ responses' = Append(responses, r)
        /\ IF r.sent
           THEN IF r.body = "broken"
                THEN \* response.text()?
                     Returns("Err", "body") /\ UNCHANGED last_error
                ELSE IF IsSuccess(r.status) \/ ~IsServerError(r.status)
                THEN /\ IF ~IsSuccess(r.status)
                        THEN Returns("Err", "status")
                        ELSE Returns("Ok", "none")
                     /\ UNCHANGED last_error
                ELSE /\ last_error' = "server"
                     /\ UNCHANGED <<upc, upload_result, upload_error>>
           ELSE /\ last_error' = "request"
                /\ UNCHANGED <<upc, upload_result, upload_error>>
    /\ UNCHANGED <<file_len, is_dry_run, release_reply>>
    /\ UNCHANGED <<target_spec, varsTriple, varsDir, macho, varsFix, varsMain, varsOther>>

\* "If we get here, all retries failed": Err(last_error).
UploadGiveUp ==
    /\ upc = "loop"
    /\ ~(attempt < MAX_RETRIES)
    /\ Returns("Err", last_error)
    /\ UNCHANGED <<file_len, is_dry_run, requests, release_reply, responses, attempt,
                   last_error>>
    /\ UNCHANGED <<target_spec, varsTriple, varsDir, macho, varsFix, varsMain, varsOther>>

NextUpload ==
    \/ WriteInspectCopy
    \/ SizeGate
    \/ FetchRelease
    \/ CreateRelease
    \/ UploadAttempt
    \/ UploadGiveUp

SpecUpload == InitUpload /\ [][NextUpload]_vars

-----------------------------------------------------------------------------
(* The upload's properties *)

\* C9: an archive of fewer than 10240 bytes is turned away with an error
\* before any request is sent to the release host, and an archive of 10240
\* bytes or more is never turned away for its size.
C9_SizeGate ==
    /\ file_len < 10240 =>
          /\ requests = <<>>
          /\ upc \in {"entry", "gate", "returned"}
          /\ upc = "returned" => upload_result = "Err"
    /\ file_len >= 10240 => upload_error # "small"
    /\ (upc = "returned" /\ upload_error # "io") =>
          (upload_error = "small" <=> file_len < 10240)

\* An archive of 10239 bytes has been turned away for its size, and no
\* request has been sent.
C9_Witness ==
    /\ file_len = 10239
    /\ upc = "returned"
    /\ upload_result = "Err"
    /\ upload_error = "small"
    /\ requests = <<>>

\* An upload attempt that failed as a 5xx or a transport failure: no
\* response, a response whose body could not be read, or a 5xx status.
FailedRetryably(r) ==
    \/ ~r.sent
    \/ r.body = "broken"
    \/ (r.status >= 500 /\ r.status <= 599)

\* C10: there are at most 3 upload attempts, no attempt follows one that is
\* not a 5xx/transport failure, and when upload_package has returned from
\* the upload, the last attempt is one that is not such a failure, or is
\* the third.
C10_AttemptsUntilFirstNonFailure ==
    /\ Len(responses) <= 3
    /\ \A i \in 1..(Len(responses) - 1) : FailedRetryably(responses[i])
    /\ (upc = "returned" /\ responses # <<>>) =>
          \/ ~FailedRetryably(responses[Len(responses)])
          \/ Len(responses) = 3

\* The first upload attempt was answered 503, the body could not be read,
\* and upload_package has returned after that one attempt.
C10_OneAttemptOn503 ==
    /\ upc = "returned"
    /\ responses = <<Reply(503, "broken")>>
    /\ upload_result = "Err"

\* C11: an upload attempt answered with a status that is neither 2xx nor
\* 5xx is the last attempt, whatever the number of attempts left, and
\* upload_package has returned an error on it.
C11_NoRetryOnOtherStatus ==
    \A i \in DOMAIN responses :
        (responses[i].sent
         /\ ~(responses[i].status >= 200 /\ responses[i].status <= 299)
         /\ ~(responses[i].status >= 500 /\ responses[i].status <= 599)) =>
            /\ i = Len(responses)
            /\ attempt = i
            /\ upc = "returned"
            /\ upload_result = "Err"

\* After a 503, the second attempt was answered 404 and the upload has
\* failed there, one attempt short of the bound.
C11_Witness ==
    /\ responses = <<Reply(503, "text"), Reply(404, "text")>>
    /\ attempt = 2
    /\ upc = "returned"
    /\ upload_result = "Err"
    /\ upload_error = "status"

\* C12: no upload attempt that ended in a transport error (the request could
\* not be sent, or the response or its body could not be received) while
\* attempts remained is the last one: upload_package has not returned on it.
C12_TransportErrorRetried ==
    \A i \in DOMAIN responses :
        ((~responses[i].sent \/ responses[i].body = "broken") /\ i < 3) =>
            ~(upc = "returned" /\ i = Len(responses))

\* The first attempt was answered 200, the body could not be read, and
\* upload_package has returned an error with two attempts left.
C12_FailsOnUnreadBody ==
    /\ responses = <<Reply(200, "broken")>>
    /\ attempt = 1
    /\ upc = "returned"
    /\ upload_result = "Err"
    /\ upload_error = "body"

\* C17: a create-release request is sent only after the fetch of the release
\* was answered 404; after any other answer that is not a success the
\* upload has failed with the fetch as its only request; and after a
\* success no create-release request is sent.
C17_CreateOnlyWhenAbsent ==
    /\ (\E i \in DOMAIN requests : requests[i] = "POST release") =>
          (release_reply.sent /\ release_reply.status = 404)
    /\ (release_reply # <<>> /\ release_reply.sent
        /\ ~(release_reply.status >= 200 /\ release_reply.status <= 299)
        /\ release_reply.status # 404) =>
          /\ upc = "returned"
          /\ upload_result = "Err"
          /\ requests = <<"GET release">>

\* The fetch of the release was answered 500, a release was created all the
\* same and the archive was uploaded to it.
C17_CreatedAfter500 ==
    /\ release_reply = Reply(500, "id")
    /\ requests = <<"GET release", "POST release", "POST asset">>
    /\ upc = "returned"
    /\ upload_result = "Ok"

-----------------------------------------------------------------------------
(* build(): the `build` command, from the config file to the upload *)

\* pub const CONFIG_VERSION: u64 = 3
CONFIG_VERSION == 3

\* Most binaries a config names, and most custom steps it lists.
MaxBins == 2
MaxSteps == 1

\* What the output directory holds for a configured binary after
\* `cargo build`: nothing, a zero-length file, or a linked executable.
BinStates == {"missing", "empty", "ok"}
BinLists == UNION { [1..n -> BinStates] : n \in 1..MaxBins }

\* GITHUB_REF: unset, a branch, the bare prefix of a tag, a tag.
BranchRef == <<"refs/", "heads/", "main">>
TagRef == <<"refs/", "tags/", "v1.0.0">>
GithubRefs == {None, Some(BranchRef), Some(<<"refs/", "tags/">>), Some(TagRef)}

\* str::strip_prefix
strip_prefix(s, p) ==
    IF StartsWith(s, p) THEN Some(SubSeq(s, Len(p) + 1, Len(s))) ELSE None

\* env::var("GITHUB_REF").ok().and_then(|r| r.strip_prefix("refs/tags/")..)
maybe_tag(ref) ==
    IF ref.some THEN strip_prefix(ref.val, <<"refs/", "tags/">>) ELSE None

\* A slip: the tag left out of the decision.
DryRunWithoutToken(token, ref) == ~token

\* is_dry_run: set by the missing token and by the missing or invalid tag
DryRun(token, ref) == ~token \/ ~maybe_tag(ref).some

\* The config file and the environment build() can find.
Configs ==
    [file : {"ok", "malformed", "missing"}, version : {2, 3, 4},
     cache_dir : BOOLEAN, ci : BOOLEAN, artifact_name : BOOLEAN,
     token : BOOLEAN, github_ref : GithubRefs, os : {"linux", "macos", "freebsd"},
     cargo : BOOLEAN, steps : 0..MaxSteps]

\* A config and an environment nothing is wrong with.
SoundConfig(c) ==
    /\ c.file = "ok"
    /\ c.version = 3
    /\ c.cache_dir
    /\ (c.ci => c.artifact_name)

Stage(name, ok) == [stage |-> name, ok |-> ok]

\* The process ends: build() returned Err (main returns it, exit code 1), a
\* panic (exit code 101), or std::process::exit(code) in command.rs.
Ends(how, code) ==
    /\ mpc' = "ended"
    /\ main_result' = how
    /\ main_exit' = code

\* A slip: any version of the config accepted.
VersionAccepted(version) == TRUE

\* config.version != CONFIG_VERSION
VersionOk(version) == version = CONFIG_VERSION

\* A slip: a binary taken to exist without a look at the disk.
BinaryExistsUnchecked(state) == TRUE

\* binary_path.exists()
BinaryExists(state) == state # "missing"

\* A slip: a command that failed taken for one that succeeded.
ToolNeverBails(ok) == FALSE

\* if !status.success() { std::process::exit(..) }
ToolBails(ok) == ~ok

InitMain ==
    /\ target_spec \in { t \in FixTargets : t.os = <<"linux">> }
    /\ TripleIdle
    /\ FixIdle
    /\ UploadIdle
    /\ OtherIdle
    /\ mpc = "load_config"
    /\ cfg \in Configs
    /\ out_bins \in BinLists
    \* what comes after the config is read is explored for sound configs
    \* with a cargo section, and one build is enough for the others
    /\ ~(SoundConfig(cfg) /\ cfg.cargo) =>
          (out_bins = [i \in 1..1 |-> "ok"] /\ cfg.os = "linux" /\ cfg.token
             /\ cfg.github_ref = Some(TagRef))
    /\ ~SoundConfig(cfg) => (cfg.cargo /\ cfg.steps = 0)
    /\ cfg.file # "ok" => (cfg.version = 3 /\ cfg.cache_dir /\ cfg.ci /\ cfg.artifact_name)
    /\ SoundConfig(cfg) =>
          /\ cfg.github_ref = IF cfg.token THEN Some(TagRef) ELSE None
          /\ cfg.ci \/ (~cfg.artifact_name /\ cfg.steps = 0 /\ Len(out_bins) = 1)
    /\ chk_i = 1
    /\ packaged = <<>>
    /\ done = <<>>
    /\ steps_left = 0
    /\ main_result = "none"
    /\ main_exit = 0

\* load_config()?
LoadConfig ==
    /\ mpc = "load_config"
    /\ IF cfg.file = "ok" /\ VersionOk(cfg.version)
       THEN /\ mpc' = "new_context"
            /\ done' = Append(done, Stage("config", TRUE))
            /\ UNCHANGED <<main_result, main_exit>>
       ELSE /\ Ends("Err", 1)
            /\ done' = Append(done, Stage("config", FALSE))
    /\ UNCHANGED <<cfg, out_bins, chk_i, packaged, steps_left>>
    /\ UNCHANGED <<varsOther, target_spec, varsTriple, varsDir, macho, varsFix, varsUpload>>

\* BuildContext::new(config)?: BEARDIST_CACHE_DIR, the token and the tag
\* (without either the run is a dry run), BEARDIST_ARTIFACT_NAME.
NewContext ==
    /\ mpc = "new_context"
    /\ \E io_ok \in BOOLEAN, rustc_ok \in BOOLEAN :
        IF ~cfg.cache_dir \/ ~io_ok
        THEN /\ Ends("Err", 1)
             /\ done' = Append(done, Stage("context", FALSE))
             /\ UNCHANGED <<is_dry_run, steps_left>>
        ELSE IF ~cfg.artifact_name /\ cfg.ci
        THEN /\ Ends("panic", 101)
             /\ done' = Append(done, Stage("context", FALSE))
             /\ UNCHANGED <<is_dry_run, steps_left>>
        ELSE IF ~cfg.artifact_name /\ ToolBails(rustc_ok)
        \* no name and no CI: `rustc +stable --print target-libdir` names it
        THEN /\ Ends("exit", 1)
             /\ done' = Append(done, Stage("context", FALSE))
             /\ UNCHANGED <<is_dry_run, steps_left>>
        ELSE /\ is_dry_run' = DryRun(cfg.token, cfg.github_ref)
             /\ steps_left' = cfg.steps
             /\ mpc' = IF cfg.cargo THEN "cargo_new" ELSE "custom"
             /\ done' = Append(done, Stage("context", TRUE))
             /\ UNCHANGED <<main_result, main_exit>>
    /\ UNCHANGED <<cfg, out_bins, chk_i, packaged>>
    /\ UNCHANGED <<upc, file_len, requests, release_reply, responses, attempt, last_error,
                   upload_result, upload_error>>
    /\ UNCHANGED <<varsOther, target_spec, varsTriple, varsDir, macho, varsFix>>

\* A stage that runs external commands through command.rs and may return
\* an error of its own: it succeeds and build() goes on to `next`, or the
\* process ends.
RunsStage(name, next) ==
    \E ok \in BOOLEAN, err \in BOOLEAN :
        /\ done' = Append(done, Stage(name, ok /\ ~err))
        /\ IF ToolBails(ok) THEN Ends("exit", 1)
           ELSE IF err THEN Ends("Err", 1)
           ELSE mpc' = next /\ UNCHANGED <<main_result, main_exit>>

\* CargoBuildContext::new: the toolchain is asked for its versions and for
\* the target descriptor.
CargoNew ==
    /\ mpc = "cargo_new"
    /\ RunsStage("toolchain", "build_project")
    /\ UNCHANGED <<cfg, out_bins, chk_i, packaged, steps_left>>
    /\ UNCHANGED <<varsOther, target_spec, varsTriple, varsDir, macho, varsFix, varsUpload>>

\* run_timelord()?; build_project()?: `cargo build --verbose --release`.
BuildProject ==
    /\ mpc = "build_project"
    /\ RunsStage("build", "bin_check")
    /\ chk_i' = 1
    /\ UNCHANGED <<cfg, out_bins, packaged, steps_left>>
    /\ UNCHANGED <<varsOther, target_spec, varsTriple, varsDir, macho, varsFix, varsUpload>>

\* One turn of `for bin in &self.config.bins`: the binary is there and is
\* pushed to files_to_package, or the build panics.
CheckBinary ==
    /\ mpc = "bin_check"
    /\ chk_i <= Len(out_bins)
    /\ IF BinaryExists(out_bins[chk_i])
       THEN \E meta_ok \in BOOLEAN :
            IF meta_ok
            THEN /\ packaged' = Append(packaged, [kind |-> "Bin", bin |-> chk_i])
                 /\ chk_i' = chk_i + 1
                 /\ UNCHANGED <<mpc, main_result, main_exit, done>>
            ELSE /\ Ends("Err", 1)
                 /\ done' = Append(done, Stage("binaries", FALSE))
                 /\ UNCHANGED <<packaged, chk_i>>
       ELSE /\ Ends("panic", 101)
            /\ done' = Append(done, Stage("binaries", FALSE))
            /\ UNCHANGED <<packaged, chk_i>>
    /\ UNCHANGED <<cfg, out_bins, steps_left>>
    /\ UNCHANGED <<varsOther, target_spec, varsTriple, varsDir, macho, varsFix, varsUpload>>

\* Every configured binary was found.
BinariesChecked ==
    /\ mpc = "bin_check"
    /\ chk_i > Len(out_bins)
    /\ mpc' = "libstd"
    /\ done' = Append(done, Stage("binaries", TRUE))
    /\ UNCHANGED <<cfg, out_bins, chk_i, packaged, steps_left, main_result, main_exit>>
    /\ UNCHANGED <<varsOther, target_spec, varsTriple, varsDir, macho, varsFix, varsUpload>>

\* libstd is looked up in the target libdir and copied next to the binary.
CopyLibstd ==
    /\ mpc = "libstd"
    /\ RunsStage("libstd", "libraries")
    /\ UNCHANGED <<cfg, out_bins, chk_i, packaged, steps_left>>
    /\ UNCHANGED <<varsOther, target_spec, varsTriple, varsDir, macho, varsFix, varsUpload>>

\* "Add other libraries": the lib*<dll_suffix> entries of the directory.
CollectLibraries ==
    /\ mpc = "libraries"
    /\ \E io_ok \in BOOLEAN :
        /\ done' = Append(done, Stage("libraries", io_ok))
        /\ IF io_ok
           THEN /\ packaged' = Append(packaged, [kind |-> "Lib", bin |-> 0])
                /\ mpc' = "rewrite"
                /\ UNCHANGED <<main_result, main_exit>>
           ELSE Ends("Err", 1) /\ UNCHANGED packaged
    /\ UNCHANGED <<cfg, out_bins, chk_i, steps_left>>
    /\ UNCHANGED <<varsOther, target_spec, varsTriple, varsDir, macho, varsFix, varsUpload>>

\* self.fix_install_names()?
RewriteInstallNames ==
    /\ mpc = "rewrite"
    /\ RunsStage("rewrite", "inspect")
    /\ UNCHANGED <<cfg, out_bins, chk_i, packaged, steps_left>>
    /\ UNCHANGED <<varsOther, target_spec, varsTriple, varsDir, macho, varsFix, varsUpload>>

\* The packaged binaries that are zero-length files.
EmptyPackaged ==
    { i \in DOMAIN packaged :
        packaged[i].kind = "Bin" /\ out_bins[packaged[i].bin] = "empty" }

\* The inspection of the packaged binaries and libraries: ldd and readelf
\* on linux, which both fail on a zero-length file; otool on macos, which
\* may or may not; nothing on any other OS.
InspectPackaged ==
    /\ mpc = "inspect"
    /\ IF cfg.os \in {"linux", "macos"}
       THEN \E ok \in IF EmptyPackaged = {} \/ cfg.os = "macos"
                      THEN BOOLEAN ELSE {FALSE} :
            /\ done' = Append(done, Stage("inspect", ok))
            /\ IF ToolBails(ok) THEN Ends("exit", 1)
               ELSE mpc' = "run" /\ UNCHANGED <<main_result, main_exit>>
       ELSE /\ done' = Append(done, Stage("inspect", TRUE))
            /\ mpc' = "run"
            /\ UNCHANGED <<main_result, main_exit>>
    /\ UNCHANGED <<cfg, out_bins, chk_i, packaged, steps_left>>
    /\ UNCHANGED <<varsOther, target_spec, varsTriple, varsDir, macho, varsFix, varsUpload>>

\* `<bins[0]> --version`: a zero-length file cannot be executed, and
\* cmd.status()? returns the error.
RunFirstBinary ==
    /\ mpc = "run"
    /\ IF out_bins[1] = "empty"
       THEN /\ done' = Append(done, Stage("run", FALSE))
            /\ Ends("Err", 1)
       ELSE \E ok \in BOOLEAN :
            /\ done' = Append(done, Stage("run", ok))
            /\ IF ToolBails(ok) THEN Ends("exit", 1)
               ELSE mpc' = "custom" /\ UNCHANGED <<main_result, main_exit>>
    /\ UNCHANGED <<cfg, out_bins, chk_i, packaged, steps_left>>
    /\ UNCHANGED <<varsOther, target_spec, varsTriple, varsDir, macho, varsFix, varsUpload>>

\* One custom step: run_command(step[0], &step[1..], None)?
CustomStep ==
    /\ mpc = "custom"
    /\ steps_left > 0
    /\ steps_left' = steps_left - 1
    /\ RunsStage("custom", "custom")
    /\ UNCHANGED <<cfg, out_bins, chk_i, packaged>>
    /\ UNCHANGED <<varsOther, target_spec, varsTriple, varsDir, macho, varsFix, varsUpload>>

\* "Adding custom files to package", after the last custom step.
CustomFiles ==
    /\ mpc = "custom"
    /\ steps_left = 0
    /\ packaged' = IF cfg.steps > 0
                   THEN Append(packaged, [kind |-> "Misc", bin |-> 0])
                   ELSE packaged
    /\ mpc' = "archive"
    /\ UNCHANGED <<cfg, out_bins, chk_i, done, steps_left, main_result, main_exit>>
    /\ UNCHANGED <<varsOther, target_spec, varsTriple, varsDir, macho, varsFix, varsUpload>>

\* create_package_archive: the size of every file is read, then tar and xz
\* are run.
CreateArchive ==
    /\ mpc = "archive"
    /\ RunsStage("archive", "read")
    /\ UNCHANGED <<cfg, out_bins, chk_i, packaged, steps_left>>
    /\ UNCHANGED <<varsOther, target_spec, varsTriple, varsDir, macho, varsFix, varsUpload>>

\* fs_err::read(&package_file)?, then the call of upload_package.
ReadArchive ==
    /\ mpc = "read"
    /\ \E io_ok \in BOOLEAN, len \in Sizes :
        /\ done' = Append(done, Stage("read", io_ok))
        /\ IF io_ok
           THEN /\ file_len' = len
                /\ upc' = "entry"
                /\ mpc' = "upload"
                /\ UNCHANGED <<main_result, main_exit>>
           ELSE Ends("Err", 1) /\ UNCHANGED <<file_len, upc>>
    /\ UNCHANGED <<cfg, out_bins, chk_i, packaged, steps_left>>
    /\ UNCHANGED <<is_dry_run, requests, release_reply, responses, attempt, last_error,
                   upload_result, upload_error>>
    /\ UNCHANGED <<varsOther, target_spec, varsTriple, varsDir, macho, varsFix>>

\* upload_package(..)? has returned; then cargo.sweep()? and Ok(()).
AfterUpload ==
    /\ mpc = "upload"
    /\ upc = "returned"
    /\ IF upload_result = "Err"
       THEN Ends("Err", 1) /\ done' = Append(done, Stage("upload", FALSE))
       ELSE \E ok \in BOOLEAN :
            /\ done' = Append(done, Stage("upload", TRUE))
            /\ IF cfg.cargo /\ ToolBails(ok) THEN Ends("exit", 1) ELSE Ends("Ok", 0)
    /\ UNCHANGED <<cfg, out_bins, chk_i, packaged, steps_left>>
    /\ UNCHANGED <<varsOther, target_spec, varsTriple, varsDir, macho, varsFix, varsUpload>>

NextMain ==
    \/ LoadConfig
    \/ NewContext
    \/ CargoNew
    \/ BuildProject
    \/ CheckBinary
    \/ BinariesChecked
    \/ CopyLibstd
    \/ CollectLibraries
    \/ RewriteInstallNames
    \/ InspectPackaged
    \/ RunFirstBinary
    \/ CustomStep
    \/ CustomFiles
    \/ CreateArchive
    \/ ReadArchive
    \/ AfterUpload
    \/ NextUpload

SpecMain == InitMain /\ [][NextMain]_vars

\* The names of the stages build() has gone through so far.
StagesRun == { done[i].stage : i \in DOMAIN done }

\* The stages that come after the check of the configured binaries.
AfterBinaries ==
    {"libstd", "libraries", "rewrite", "inspect", "run", "custom", "archive", "read", "upload"}

\* C13: a configured binary with no file in the build output directory makes
\* the build fail at that binary, by a panic, before any library is
\* collected, any install name rewritten, any file inspected, any archive
\* created and any request sent.
C13_MissingBinaryFailsFirst ==
    \A i \in DOMAIN out_bins :
        (cfg.cargo /\ out_bins[i] = "missing") =>
            /\ chk_i <= i
            /\ StagesRun \cap AfterBinaries = {}
            /\ \A j \in DOMAIN packaged : packaged[j].kind = "Bin" /\ packaged[j].bin < i
            /\ requests = <<>>
            /\ mpc \notin {"libstd", "libraries", "rewrite", "inspect", "run", "custom",
                           "archive", "read", "upload"}
            /\ (mpc = "ended" /\ chk_i = i /\ Stage("build", TRUE) \in Range(done))
                   => main_result = "panic"

C13_Witness ==
    /\ out_bins = <<"ok", "missing">>
    /\ cfg.cargo
    /\ packaged = <<[kind |-> "Bin", bin |-> 1]>>
    /\ chk_i = 2
    /\ mpc = "ended"
    /\ main_result = "panic"
    /\ main_exit = 101

\* C14: when the creation of the archive starts, every packaged executable
\* exists and is not empty.
C14_PackagedBinariesNonEmpty ==
    mpc = "archive" =>
        \A j \in DOMAIN packaged :
            packaged[j].kind = "Bin" => out_bins[packaged[j].bin] = "ok"

\* A zero-length second binary, on an OS the inspection skips, is in the
\* archive that was created and read.
C14_EmptyBinaryArchived ==
    /\ cfg.os = "freebsd"
    /\ out_bins = <<"ok", "empty">>
    /\ [kind |-> "Bin", bin |-> 2] \in Range(packaged)
    /\ Stage("archive", TRUE) \in Range(done)
    /\ mpc = "upload"

\* The stages a build with this config goes through before the upload, in
\* order.
StagesBeforeUpload(c) ==
    <<"config", "context">>
    \o (IF c.cargo
        THEN <<"toolchain", "build", "binaries", "libstd", "libraries", "rewrite",
               "inspect", "run">>
        ELSE <<>>)
    \o [i \in 1..c.steps |-> "custom"]
    \o <<"archive", "read">>

\* C16: a request is sent only after the toolchain build, the check of the
\* binaries, the rewriting, the inspection, every custom step, the creation
\* of the archive and the size check have all succeeded; a failure of any
\* of them ends the run with no request sent.
C16_UploadOnlyAfterAllStages ==
    /\ requests # <<>> =>
          /\ Len(done) >= Len(StagesBeforeUpload(cfg))
          /\ \A i \in 1..Len(StagesBeforeUpload(cfg)) :
                done[i] = Stage(StagesBeforeUpload(cfg)[i], TRUE)
          /\ ~TooSmall(file_len)
          /\ ~is_dry_run
    /\ \A i \in DOMAIN done :
          (~done[i].ok /\ done[i].stage # "upload") =>
              /\ requests = <<>>
              /\ mpc = "ended"
              /\ main_result # "Ok"
              /\ i = Len(done)

C16_Witness ==
    /\ cfg.cargo
    /\ cfg.steps = 1
    /\ Len(out_bins) = 2
    /\ requests = <<"GET release", "POST asset">>
    /\ mpc = "ended"
    /\ main_result = "Ok"
    /\ Len(done) = Len(StagesBeforeUpload(cfg)) + 1

\* C19: a malformed or unreadable config, a config version other than 3, no
\* BEARDIST_CACHE_DIR, or no BEARDIST_ARTIFACT_NAME while CI is set, fails
\* the run before the toolchain, any custom step, the archive and any
\* request.
C19_ConfigErrorsFailFast ==
    ~SoundConfig(cfg) =>
        /\ mpc \in {"load_config", "new_context", "ended"}
        /\ StagesRun \subseteq {"config", "context"}
        /\ packaged = <<>>
        /\ requests = <<>>
        /\ upc = "idle"
        /\ mpc = "ended" =>
              /\ main_result \in {"Err", "panic"}
              /\ main_exit # 0
              /\ ~done[Len(done)].ok

C19_Witness ==
    /\ cfg.file = "ok"
    /\ cfg.version = 4
    /\ mpc = "ended"
    /\ main_result = "Err"
    /\ done = <<Stage("config", FALSE)>>

-----------------------------------------------------------------------------
(* External processes: run_command, get_cmd_stdout, the k8s deploy command *)

\* Most invocations one command makes.
MaxCalls == 3

\* The sites that start a child process.
CommandSites == {"run_command", "get_cmd_stdout"}
Sites == CommandSites \cup {"k8s_deploy"}

\* How a child can end: it exits with a code, a signal kills it (no code),
\* or it cannot be started at all.
ChildCodes == {0, 1, 2, 101}
ChildOutcomes ==
    { [how |-> "exit", code |-> c] : c \in ChildCodes }
        \cup { [how |-> "signal", code |-> -1], [how |-> "nospawn", code |-> -1] }

\* status.success()
Success(o) == o.how = "exit" /\ o.code = 0

\* status.code().unwrap_or(-1)
CodeOr(o) == IF o.how = "exit" THEN o.code ELSE -1

\* The exit code the parent of the program sees after std::process::exit(c).
ExitCode(c) == c % 256

\* The invocations of a command: those of command.rs in any order (build,
\* bump, update-tap), or the one of `k8s`, its last statement but Ok(()).
Plans ==
    UNION { [1..n -> CommandSites] : n \in 1..MaxCalls } \cup { <<"k8s_deploy">> }

InitProc ==
    /\ target_spec \in { t \in FixTargets : t.os = <<"linux">> }
    /\ TripleIdle
    /\ FixIdle
    /\ UploadIdle
    /\ MainIdle
    /\ ArchiveIdle
    /\ FormulaIdle
    /\ TapIdle
    /\ K8sIdle
    /\ LibstdIdle
    /\ plan \in Plans
    /\ pidx = 1
    /\ statuses = <<>>
    /\ ppc = "running"
    /\ proc_exit = 0

ProcFrame ==
    UNCHANGED <<target_spec, varsTriple, varsDir, macho, varsFix, varsUpload, varsMain,
                varsArchive, varsFormula, varsTap, varsK8s, varsLibstd>>

\* One invocation: the child is started and waited for. run_command and
\* get_cmd_stdout exit the program when the child did not succeed; the
\* deploy command's status is dropped (`.spawn()?.wait()?;`).
Invoke ==
    /\ ppc = "running"
    /\ pidx <= Len(plan)
    /\ \E o \in ChildOutcomes :
        /\ statuses' = Append(statuses, o)
        /\ IF o.how = "nospawn"
           THEN ppc' = "exited" /\ proc_exit' = 1 /\ UNCHANGED pidx
           ELSE IF plan[pidx] \in CommandSites /\ ~Success(o)
           THEN ppc' = "exited" /\ proc_exit' = ExitCode(CodeOr(o)) /\ UNCHANGED pidx
           ELSE pidx' = pidx + 1 /\ UNCHANGED <<ppc, proc_exit>>
    /\ UNCHANGED plan
    /\ ProcFrame

\* Every invocation is behind: the command returns Ok(()), main too.
CommandReturns ==
    /\ ppc = "running"
    /\ pidx > Len(plan)
    /\ ppc' = "exited"
    /\ proc_exit' = 0
    /\ UNCHANGED <<plan, pidx, statuses>>
    /\ ProcFrame

NextProc == Invoke \/ CommandReturns

SpecProc == InitProc /\ [][NextProc]_vars

\* C15: a child that exits with a non-zero code ends the program at once
\* with that code, at every invocation site: it is the last child, and no
\* later step runs.
C15_ChildFailureEndsProgram ==
    \A i \in DOMAIN statuses :
        (statuses[i].how = "exit" /\ statuses[i].code # 0) =>
            /\ i = Len(statuses)
            /\ ppc = "exited"
            /\ proc_exit = statuses[i].code

\* `./deploy` exited with 1 and the program ended with 0.
C15_DeployFailureIgnored ==
    /\ plan = <<"k8s_deploy">>
    /\ statuses = <<[how |-> "exit", code |-> 1]>>
    /\ ppc = "exited"
    /\ proc_exit = 0

-----------------------------------------------------------------------------
(* create_package_archive: the tar command line and what tar makes of it *)

\* Most files one archive is asked to hold.
MaxFiles == 3

\* A directory as a path: absolute or relative, and its components.
AbsDir(comps) == [abs |-> TRUE, comps |-> comps]
RelDir(comps) == [abs |-> FALSE, comps |-> comps]

\* source_dir: env::current_dir()?.canonicalize()?, also the directory the
\* program and its children run in.
SourceDir == AbsDir(<<"src">>)

\* cargo_out_dir(): <BEARDIST_CACHE_DIR>/target/release, relative when the
\* variable holds a relative path.
OutDirs == { AbsDir(<<"cache", "target", "release">>), RelDir(<<"cache", "target", "release">>) }

PackagedPath(dir, name) == [dir |-> dir, name |-> name]

\* The paths build() can push: binaries and libraries of the output
\* directory, custom files under the source directory.
CargoPaths == { PackagedPath(d, n) : d \in OutDirs, n \in {"app", "libstd.so"} }
CustomPaths ==
    { PackagedPath(SourceDir, "data.json"),
      PackagedPath(AbsDir(<<"src", "assets">>), "data.json"),
      PackagedPath(SourceDir, "absent") }

\* A directory named by `dir`, seen from the directory `cwd`.
ChDir(cwd, dir) == IF dir.abs THEN dir.comps ELSE cwd \o dir.comps

\* Where a packaged path is on the disk.
OnDisk(f) == <<ChDir(SourceDir.comps, f.dir), f.name>>

\* The files and the directories of the disk.
DiskFiles == { OnDisk(f) : f \in { g \in CargoPaths \cup CustomPaths : g.name # "absent" } }
DiskDirs == { fl[1] : fl \in DiskFiles }

\* files_to_package: the cargo files, all of one output directory, then the
\* custom files.
PackageLists ==
    { fs \in UNION { [1..n -> CargoPaths \cup CustomPaths] : n \in 1..MaxFiles } :
        /\ \A i, j \in DOMAIN fs :
              (fs[i] \in CargoPaths /\ fs[j] \in CargoPaths) => fs[i].dir = fs[j].dir
        /\ \A i, j \in DOMAIN fs :
              (i < j /\ fs[j] \in CargoPaths) => fs[i] \in CargoPaths }

ArtifactNames == {"x86_64-unknown-linux-gnu", "aarch64-apple-darwin"}

InitArchive ==
    /\ target_spec \in { t \in FixTargets : t.os = <<"linux">> }
    /\ TripleIdle
    /\ FixIdle
    /\ UploadIdle
    /\ MainIdle
    /\ ProcIdle
    /\ FormulaIdle
    /\ TapIdle
    /\ K8sIdle
    /\ LibstdIdle
    /\ pkg_files \in PackageLists
    /\ apc = "entry"
    /\ tar_cwd = <<>>
    /\ tar_i = 1
    /\ members = <<>>
    /\ package_file = <<>>

ArchiveFrame ==
    UNCHANGED <<target_spec, varsTriple, varsDir, macho, varsFix, varsUpload, varsMain,
                varsProc, varsFormula, varsTap, varsK8s, varsLibstd>>

\* The archive's name is chosen and fs_err::metadata(&file.path)? is called
\* for every file; then bash is started in the program's directory.
ArchiveEnter ==
    /\ apc = "entry"
    /\ \E artifact_name \in ArtifactNames :
        package_file' = <<artifact_name, ".tar.xz">>
    /\ IF \A i \in DOMAIN pkg_files : OnDisk(pkg_files[i]) \in DiskFiles
       THEN apc' = "tar" /\ tar_cwd' = SourceDir.comps
       ELSE apc' = "Err" /\ UNCHANGED tar_cwd
    /\ UNCHANGED <<pkg_files, tar_i, members>>
    /\ ArchiveFrame

\* tar takes `-C <parent> <file_name>`: it changes directory, from where it
\* is, and writes the file of that name as a member under that name. A
\* directory or a file it cannot find makes it exit with 2, and
\* run_command ends the program.
TarOperand ==
    /\ apc = "tar"
    /\ tar_i <= Len(pkg_files)
    /\ LET f == pkg_files[tar_i]
           dir == ChDir(tar_cwd, f.dir)
       IN  IF dir \in DiskDirs /\ <<dir, f.name>> \in DiskFiles
           THEN /\ members' = Append(members, [name |-> f.name, content |-> <<dir, f.name>>])
                /\ tar_cwd' = dir
                /\ tar_i' = tar_i + 1
                /\ UNCHANGED apc
           ELSE /\ apc' = "exit"
                /\ UNCHANGED <<members, tar_cwd, tar_i>>
    /\ UNCHANGED <<pkg_files, package_file>>
    /\ ArchiveFrame

\* tar and xz are through: Ok(package_file).
ArchiveReturn ==
    /\ apc = "tar"
    /\ tar_i > Len(pkg_files)
    /\ apc' = "done"
    /\ UNCHANGED <<pkg_files, tar_cwd, tar_i, members, package_file>>
    /\ ArchiveFrame

NextArchive == ArchiveEnter \/ TarOperand \/ ArchiveReturn

SpecArchive == InitArchive /\ [][NextArchive]_vars

\* What unpacking an archive leaves of the member called `name`: the last
\* member of that name.
RECURSIVE Unpacked(_, _)
Unpacked(ms, name) ==
    IF ms = <<>> THEN <<>>
    ELSE IF ms[Len(ms)].name = name THEN ms[Len(ms)].content
    ELSE Unpacked(SubSeq(ms, 1, Len(ms) - 1), name)

\* C18: the archive is <artifact-name>.tar.xz and is flat: one member for
\* every packaged file, under the file's base name; the member names are
\* the base names; and every packaged file comes out of the archive.
C18_FlatAndComplete ==
    apc = "done" =>
        /\ package_file[2] = ".tar.xz"
        /\ package_file[1] \in ArtifactNames
        /\ Len(members) = Len(pkg_files)
        /\ \A i \in DOMAIN pkg_files : members[i].name = pkg_files[i].name
        /\ { members[i].name : i \in DOMAIN members }
               = { pkg_files[i].name : i \in DOMAIN pkg_files }
        /\ \A i \in DOMAIN pkg_files :
               Unpacked(members, pkg_files[i].name) = OnDisk(pkg_files[i])

\* Two custom files of one base name in two directories: the archive has
\* two members of that name, and only the second comes out of it.
C18_SameBaseNameShadowed ==
    /\ pkg_files = << PackagedPath(SourceDir, "data.json"),
                      PackagedPath(AbsDir(<<"src", "assets">>), "data.json") >>
    /\ apc = "done"
    /\ Len(members) = 2
    /\ Unpacked(members, "data.json") = <<(<<"src", "assets">>), "data.json">>

-----------------------------------------------------------------------------
(* HomebrewContext::update_formula: three fetch threads, joined *)

\* The threads, in the order update_formula spawns and joins them.
FetchThreads == <<"mac", "linux_x86_64", "linux_aarch64">>
ThreadNames == Range(FetchThreads)

At(where, i) == [at |-> where, i |-> i]

\* What get_binary returns in the thread `t`: the hash of its own URL's
\* artifact, or an error.
BinaryOf(t) == [ok |-> TRUE, sha256 |-> t]
FetchError == [ok |-> FALSE, sha256 |-> "none"]
Panicked == [ok |-> FALSE, sha256 |-> "panic"]
Empty == [ok |-> FALSE, sha256 |-> "empty"]

\* In a dry run fetch_and_hash sends nothing and returns the hash of the
\* URL itself.
DryBinaryOf(t) == [ok |-> TRUE, sha256 |-> <<"url", t>>]

\* A thread's result lands in its handle: by whom, where, and as the
\* how-manieth result of the run.
Written(t) == [by |-> t, slot |-> t, n |-> Cardinality(writes) + 1]

\* The fetches that returned an error, as indices into FetchThreads.
FailedFetches(sl) == { i \in DOMAIN FetchThreads : sl[FetchThreads[i]] = FetchError }

\* A slip: the error of the fetch that failed first in time.
ErrorOfFirstToFail(sl, ws) ==
    CHOOSE i \in FailedFetches(sl) :
        \A j \in FailedFetches(sl), wi \in ws, wj \in ws :
            (wi.by = FetchThreads[i] /\ wj.by = FetchThreads[j]) => wi.n <= wj.n

\* mac?, linux_x86_64?, linux_aarch64?: the first Err in this order returns
ReturnedError(sl, ws) ==
    CHOOSE i \in FailedFetches(sl) : \A j \in FailedFetches(sl) : i <= j

\* A slip: a join that returns without waiting.
JoinReadyAtOnce(t) == TRUE

\* JoinHandle::join returns once the thread has terminated.
JoinReady(t) == threads[t] \in {"finished", "panicked"}

InitFormula ==
    /\ target_spec \in { t \in FixTargets : t.os = <<"linux">> }
    /\ TripleIdle
    /\ FixIdle
    /\ UploadIdle
    /\ MainIdle
    /\ ProcIdle
    /\ ArchiveIdle
    /\ K8sIdle
    /\ TapIdle
    /\ LibstdIdle
    /\ fpc = At("spawn", 1)
    /\ threads = [t \in ThreadNames |-> "unspawned"]
    /\ slots = [t \in ThreadNames |-> Empty]
    /\ writes = {}
    /\ formula = <<>>

FormulaFrame ==
    UNCHANGED <<target_spec, varsTriple, varsDir, macho, varsFix, varsUpload, varsMain,
                varsProc, varsArchive, varsK8s, varsTap, varsLibstd>>

\* std::thread::spawn(move || self_cloneN.get_binary(&url)), three times.
SpawnThread ==
    /\ fpc.at = "spawn"
    /\ threads' = [threads EXCEPT ![FetchThreads[fpc.i]] = "fetching"]
    /\ fpc' = IF fpc.i < Len(FetchThreads) THEN At("spawn", fpc.i + 1) ELSE At("join", 1)
    /\ UNCHANGED <<slots, writes, formula>>
    /\ FormulaFrame

\* The threads run while the process does.
ProcessAlive == fpc.at \notin {"panic", "Err", "generated"}

\* In a thread, fetch_and_hash: the request and the response's bytes. An
\* error ends the thread with Err in its own handle.
ThreadFetch(t) ==
    /\ ProcessAlive
    /\ threads[t] = "fetching"
    /\ IF tap_dry_run
       THEN /\ threads' = [threads EXCEPT ![t] = "finished"]
            /\ slots' = [slots EXCEPT ![t] = DryBinaryOf(t)]
            /\ writes' = writes \cup {Written(t)}
       ELSE \E outcome \in {"Ok", "Err", "panic"} :
        /\ threads' = [threads EXCEPT ![t] =
              CASE outcome = "Ok" -> "hashing"
                [] outcome = "Err" -> "finished"
                [] OTHER -> "panicked"]
        /\ IF outcome = "Ok"
           THEN UNCHANGED <<slots, writes>>
           ELSE /\ slots' = [slots EXCEPT ![t] = IF outcome = "Err" THEN FetchError
                                                 ELSE Panicked]
                /\ writes' = writes \cup {Written(t)}
    /\ UNCHANGED <<fpc, formula>>
    /\ FormulaFrame

\* In a thread, the hash of the bytes; the closure returns the Binary.
ThreadHash(t) ==
    /\ ProcessAlive
    /\ threads[t] = "hashing"
    /\ threads' = [threads EXCEPT ![t] = "finished"]
    /\ slots' = [slots EXCEPT ![t] = BinaryOf(t)]
    /\ writes' = writes \cup {Written(t)}
    /\ UNCHANGED <<fpc, formula>>
    /\ FormulaFrame

\* let x = x.join().unwrap(): waits for the thread; a thread that panicked
\* makes join return Err and unwrap panic.
JoinThread ==
    /\ fpc.at = "join"
    /\ JoinReady(FetchThreads[fpc.i])
    /\ fpc' = IF slots[FetchThreads[fpc.i]] = Panicked THEN At("panic", fpc.i)
              ELSE IF fpc.i < Len(FetchThreads) THEN At("join", fpc.i + 1)
              ELSE At("collect", 1)
    /\ UNCHANGED <<threads, slots, writes, formula>>
    /\ FormulaFrame

\* Binaries { mac: mac?, .. } and generate_homebrew_formula(binaries)?
GenerateFormula ==
    /\ fpc.at = "collect"
    /\ IF \E t \in ThreadNames : slots[t] = FetchError
       THEN fpc' = At("Err", ReturnedError(slots, writes)) /\ UNCHANGED formula
       ELSE fpc' = At("generated", 1) /\ formula' = slots
    /\ UNCHANGED <<threads, slots, writes>>
    /\ FormulaFrame

NextFormula ==
    \/ SpawnThread
    \/ \E t \in ThreadNames : ThreadFetch(t)
    \/ \E t \in ThreadNames : ThreadHash(t)
    \/ JoinThread
    \/ GenerateFormula

SpecFormula == InitFormula /\ [][NextFormula]_vars

\* C20: exactly three fetch threads are started; the formula is generated
\* only after all three have terminated, from each thread's own result;
\* each thread writes its own slot only, and the calling thread reads a
\* slot only once its thread has terminated.
C20_JoinedBeforeFormula ==
    /\ Cardinality({ t \in DOMAIN threads : threads[t] # "unspawned" }) =
          IF fpc.at = "spawn" THEN fpc.i - 1 ELSE 3
    /\ fpc.at \in {"collect", "generated", "Err"} =>
          \A t \in ThreadNames : threads[t] = "finished"
    /\ formula # <<>> =>
          /\ \A t \in ThreadNames : threads[t] = "finished"
          /\ \A t \in ThreadNames : formula[t] = BinaryOf(t)
    /\ \A w \in writes : w.by = w.slot
    /\ \A t \in ThreadNames : slots[t] # Empty => threads[t] \in {"finished", "panicked"}
    /\ fpc.at = "join" => \A i \in 1..(fpc.i - 1) : threads[FetchThreads[i]] = "finished"

C20_Witness ==
    /\ fpc.at = "generated"
    /\ formula = [t \in ThreadNames |-> BinaryOf(t)]
    /\ Cardinality(writes) = 3

-----------------------------------------------------------------------------
(* The packaged files between the rewriter, the inspection and the archive *)

\* An invocation the inspection makes (the rewriter's own are `otool -l`
\* and install_name_tool).
IsInspection(v) ==
    \/ v.tool \in {"ldd", "readelf", "bash"}
    \/ v.tool = "otool" /\ v.op = "-L"

\* The references of worklist file j to owned libraries that are not of the
\* form @rpath/<name>.
Unrewritten(j) ==
    LET f == OpenMachO(dylibs_to_fix[j]).val
    IN  { k \in DOMAIN macho[f] :
            /\ macho[f][k].cmd = "LC_LOAD_DYLIB"
            /\ LastComponent(macho[f][k].name) \in our_libraries
            /\ macho[f][k].name # RpathOf(LastComponent(macho[f][k].name)) }

\* C21: the inspection of a packaged file starts only when fix_install_names
\* has returned Ok with every worklist file rewritten; build() returns to
\* the archive only with every binary and library inspected; the files the
\* archive then takes are the rewritten ones.
C21_ConsumedInSequence ==
    /\ (\E v \in invoked : IsInspection(v)) =>
          /\ pc \in {"version", "built", "exited"}
          /\ result = "Ok"
          /\ Rewriting =>
                /\ cur > Len(dylibs_to_fix)
                /\ \A j \in DOMAIN dylibs_to_fix : DepsDone(j) /\ IdDone(j)
    /\ pc = "built" =>
          /\ InspectionOf(PackagedBins \cup PackagedLibs) \subseteq invoked
          /\ result = "Ok"
          /\ Rewriting => \A j \in DOMAIN dylibs_to_fix : Unrewritten(j) = {}

C21_Witness ==
    /\ pc = "built"
    /\ runs = 1
    /\ Rewriting
    /\ Len(dylibs_to_fix) = 3
    /\ \E v \in invoked : v.tool = "otool" /\ v.op = "-L"
    /\ \E f \in DOMAIN macho : macho[f] # before[f]

\* C22: once the worklist is built, every owned library that is not a
\* symbolic link is on it once, under its canonical path or, when that
\* could not be had, under the path it was listed at; the scan itself never
\* ends the build.
C22_UncanonicalizedStillFixed ==
    /\ WorklistBuilt =>
          \A n \in Canonicalized :
              LET listed == Join(GivenDir, n)
                  canon == Realpath(listed).val
              IN  Cardinality({ j \in DOMAIN dylibs_to_fix :
                                  dylibs_to_fix[j] \in {listed, canon} /\ j <= Cardinality(Canonicalized) }) = 1
    /\ (pc = "failed" /\ our_libraries # {}) => bin_i <= Len(bins)

\* The directory is behind a symbolic link, libfoo.dylib could not be
\* canonicalized: it was rewritten under the path it was listed at, and
\* the build went through.
C22_Witness ==
    /\ dir_is_link
    /\ runs = 1
    /\ pc = "built"
    /\ result = "Ok"
    /\ N_foo \in Canonicalized
    /\ Join(GivenDir, N_foo) \in Range(dylibs_to_fix)
    /\ Join(RealDir, N_foo) \notin Range(dylibs_to_fix)
    /\ \E k \in DOMAIN macho[N_foo] :
          macho[N_foo][k] = LoadCmd("LC_ID_DYLIB", RpathOf(N_foo))

-----------------------------------------------------------------------------
(* The verification read, whatever the rewrites left in the file *)

\* The loop over the worklist at the "Verify changes" of its first file.
\* install_name_tool has exited with 0, and the files hold what it, or
\* anything else, left in them: any dependency list, rewritten or not.
InitVerify ==
    /\ target_spec \in { t \in FixTargets : t.os = <<"macos">> }
    /\ dir_is_link = FALSE
    /\ bins = <<N_bin>>
    /\ \E barThere \in BOOLEAN, libDeps \in LibDepLists, binDeps \in DepLists :
        /\ entries = EntriesFor("file", barThere, "file", TRUE)
        /\ macho = [n \in MachONames(EntriesFor("file", barThere, "file", TRUE)) |->
                      MachOFile(IsDylibName(n), n,
                                IF IsDylibName(n) THEN libDeps ELSE binDeps)]
    /\ \E listing \in Listings :
        LET st == ScanFrom(listing, 1, {}, [our |-> {}, fix |-> <<>>])
        IN  /\ our_libraries = st.our
            /\ dylibs_to_fix = Append(st.fix, Realpath(Join(GivenDir, N_bin)).val)
    /\ pc = "verify"
    /\ bin_i = 2
    /\ cur = 1
    /\ dependencies = <<>>
    /\ verify_deps = <<>>
    /\ invoked = {}
    /\ result = "none"
    /\ exit_code = 0
    /\ runs = 1
    /\ before = macho
    /\ rewritten = macho
    /\ TripleIdle
    /\ UploadIdle
    /\ MainIdle
    /\ OtherIdle

NextVerify ==
    \/ Verify
    \/ GetDependencies
    \/ ChangeDep
    \/ SetId
    \/ FixReturn
    \/ Inspect
    \/ RunVersion

SpecVerify == InitVerify /\ [][NextVerify]_vars

-----------------------------------------------------------------------------
(* The library suffix: the descriptor's against the rewriter's *)

\* fn default_dll_suffix() -> String { ".so".into() }
default_dll_suffix == <<".so">>

\* #[serde(rename = "dll-suffix", default = "default_dll_suffix")]: the
\* field of the descriptor, or the default when the descriptor has none.
DllSuffixOf(field) == IF field.some THEN field.val ELSE default_dll_suffix

\* The "dll-suffix" a macos descriptor can come with.
SuffixFields == {None, Some(<<".dylib">>), Some(<<".so">>)}

InitSuffix ==
    /\ \E field \in SuffixFields :
        target_spec = [arch |-> <<"aarch64">>, vendor |-> Some(<<"apple">>),
                       os |-> <<"macos">>, env |-> None,
                       dll_suffix |-> DllSuffixOf(field)]
    /\ dir_is_link = FALSE
    /\ bins = <<N_bin>>
    /\ \E fooKind \in {"file", "symlink"}, barThere \in BOOLEAN, depsThere \in BOOLEAN :
        /\ entries = EntriesFor(fooKind, barThere, "file", depsThere)
        /\ macho = [n \in MachONames(EntriesFor(fooKind, barThere, "file", depsThere)) |->
                      MachOFile(IsDylibName(n), n,
                                IF IsDylibName(n) THEN <<R_bar_usr>>
                                ELSE <<R_foo_abs, R_bar_usr>>)]
    /\ pc = "fix"
    /\ our_libraries = {}
    /\ dylibs_to_fix = <<>>
    /\ bin_i = 1
    /\ cur = 1
    /\ dependencies = <<>>
    /\ verify_deps = <<>>
    /\ invoked = {}
    /\ result = "none"
    /\ exit_code = 0
    /\ runs = 1
    /\ before = macho
    /\ rewritten = macho
    /\ TripleIdle
    /\ UploadIdle
    /\ MainIdle
    /\ OtherIdle

NextSuffix ==
    \/ FixEnter
    \/ ReadDirFails
    \/ ScanDir
    \/ AddBinary
    \/ GetDependencies
    \/ ChangeDep
    \/ SetId
    \/ Verify
    \/ FixReturn
    \/ Inspect
    \/ RunVersion

SpecSuffix == InitSuffix /\ [][NextSuffix]_vars

\* C24: on the rewriting OS, once the worklist is built, the owned set is
\* the set of base names of the packaged libraries (the lib*<dll_suffix>
\* entries of the directory), and every packaged library is on the
\* worklist or is a symbolic link, whatever the descriptor's suffix.
C24_OwnedIsPackaged ==
    (Rewriting /\ WorklistBuilt) =>
        /\ our_libraries = { LastComponent(p) : p \in PackagedLibs }
        /\ \A p \in PackagedLibs :
              \/ IsSymlink(p)
              \/ \E j \in DOMAIN dylibs_to_fix :
                    LastComponent(dylibs_to_fix[j]) = LastComponent(p)

\* A macos descriptor without "dll-suffix": no library is packaged, and
\* libfoo.dylib is owned and rewritten all the same.
C24_DefaultSuffixOnMacos ==
    /\ target_spec.dll_suffix = default_dll_suffix
    /\ PackagedLibs = {}
    /\ N_foo \in our_libraries
    /\ pc = "built"
    /\ result = "Ok"

-----------------------------------------------------------------------------
(* k8s: the image references of a manifest, found and rewritten *)

\* Most lines a manifest of the model holds.
MaxLines == 3

\* A manifest's text is a sequence of units of one length each: the two
\* literal parts of the reference ("image:" and
\* "code.bearcove.cloud/<image>:", of the same length wherever they stand),
\* blanks, line ends, version characters, and any other character.
IsSpace(u) == u \in {" ", "\n"}

\* The lines of a manifest: a reference with no, one or two blanks after
\* "image:" and a version of one or two characters, or some other line.
OldVersions == { <<"1">>, <<"1", "0">> }
NewVersions == { <<"2">>, <<"2", "0">>, <<"2", "0", "1">> }
ReferenceLines ==
    { <<"image:">> \o ws \o <<"code:">> \o v \o <<"\n">> :
        ws \in { <<>>, <<" ">>, <<" ", " ">> }, v \in OldVersions }
OtherLine == <<"x", "\n">>

RECURSIVE Concat(_)
Concat(ls) == IF ls = <<>> THEN <<>> ELSE Head(ls) \o Concat(Tail(ls))

\* The manifests collect_workspace keeps: those with an occurrence.
ManifestTexts ==
    { Concat(ls) :
        ls \in { m \in UNION { [1..n -> ReferenceLines \cup {OtherLine}] : n \in 1..MaxLines } :
                   \E i \in DOMAIN m : m[i] \in ReferenceLines } }

\* The first unit from p on that is not white space (Len + 1 if none).
RECURSIVE SkipSpace(_, _)
SkipSpace(text, p) ==
    IF p <= Len(text) /\ IsSpace(text[p]) THEN SkipSpace(text, p + 1) ELSE p

\* The first unit from p on that is white space (Len + 1 if none).
RECURSIVE SkipNonSpace(_, _)
SkipNonSpace(text, p) ==
    IF p <= Len(text) /\ ~IsSpace(text[p]) THEN SkipNonSpace(text, p + 1) ELSE p

\* image:\s*code\.bearcove\.cloud/<image>:(\S+) matched at unit p: the unit
\* after the match, 0 if there is no match at p.
MatchEnd(text, p) ==
    IF text[p] # "image:" THEN 0
    ELSE LET q == SkipSpace(text, p + 1)
         IN  IF q > Len(text) \/ text[q] # "code:" THEN 0
             ELSE LET e == SkipNonSpace(text, q + 1)
                  IN  IF e = q + 1 THEN 0 ELSE e

\* search_regex.captures_iter(&contents): start and end are byte offsets,
\* the end exclusive.
RECURSIVE Captures(_, _)
Captures(text, p) ==
    IF p > Len(text) THEN <<>>
    ELSE IF MatchEnd(text, p) = 0 THEN Captures(text, p + 1)
    ELSE << [start |-> p - 1, end |-> MatchEnd(text, p) - 1] >>
         \o Captures(text, MatchEnd(text, p))

\* format!("image: code.bearcove.cloud/{}:{}", args.image, new_version)
NewImageLine(version) == <<"image:", " ", "code:">> \o version

\* The text with every occurrence replaced and every other unit as it was.
RECURSIVE EveryOccurrenceReplaced(_, _, _)
EveryOccurrenceReplaced(text, p, version) ==
    IF p > Len(text) THEN <<>>
    ELSE IF MatchEnd(text, p) = 0
    THEN <<text[p]>> \o EveryOccurrenceReplaced(text, p + 1, version)
    ELSE NewImageLine(version)
         \o EveryOccurrenceReplaced(text, MatchEnd(text, p), version)

InitK8s ==
    /\ target_spec \in { t \in FixTargets : t.os = <<"linux">> }
    /\ TripleIdle
    /\ FixIdle
    /\ UploadIdle
    /\ MainIdle
    /\ ProcIdle
    /\ ArchiveIdle
    /\ FormulaIdle
    /\ TapIdle
    /\ LibstdIdle
    /\ kpc = "collect"
    /\ scanned \in ManifestTexts
    /\ occurrences = <<>>
    /\ contents = <<>>
    /\ occ_i = 1
    /\ new_version \in NewVersions

K8sFrame ==
    UNCHANGED <<target_spec, varsTriple, varsDir, macho, varsFix, varsUpload, varsMain,
                varsProc, varsArchive, varsFormula, varsTap, varsLibstd>>

\* collect_workspace finds the occurrences; later, with the new version
\* known, the update reads the file again.
CollectWorkspace ==
    /\ kpc = "collect"
    /\ occurrences' = Captures(scanned, 1)
    /\ contents' = scanned
    /\ occ_i' = 1
    /\ kpc' = "update"
    /\ UNCHANGED <<scanned, new_version>>
    /\ K8sFrame

\* One turn of `for occurrence in &manifest.occurrences`: the text before
\* occurrence.start, the new line, the text from occurrence.end on. A slice
\* beyond the end of the text panics.
ReplaceOccurrence ==
    /\ kpc = "update"
    /\ occ_i <= Len(occurrences)
    /\ LET occurrence == occurrences[occ_i]
       IN  IF occurrence.start > Len(contents) \/ occurrence.end > Len(contents)
           THEN kpc' = "panic" /\ UNCHANGED <<contents, occ_i>>
           ELSE /\ contents' = SubSeq(contents, 1, occurrence.start)
                                 \o NewImageLine(new_version)
                                 \o SubSeq(contents, occurrence.end + 1, Len(contents))
                /\ occ_i' = occ_i + 1
                /\ UNCHANGED kpc
    /\ UNCHANGED <<scanned, occurrences, new_version>>
    /\ K8sFrame

\* fs_err::write(&manifest.path, contents)?
WriteManifest ==
    /\ kpc = "update"
    /\ occ_i > Len(occurrences)
    /\ kpc' = "written"
    /\ UNCHANGED <<scanned, occurrences, contents, occ_i, new_version>>
    /\ K8sFrame

NextK8s == CollectWorkspace \/ ReplaceOccurrence \/ WriteManifest

SpecK8s == InitK8s /\ [][NextK8s]_vars

\* C25: the update never fails on an offset, and the manifest it writes is
\* the one it read with every occurrence of the reference rewritten to the
\* new version and everything else as it was.
C25_EveryOccurrenceRewritten ==
    /\ kpc # "panic"
    /\ kpc = "written" => contents = EveryOccurrenceReplaced(scanned, 1, new_version)

\* Two references to version 1, the new version is 20: the second is
\* replaced one unit too early.
C25_SecondOccurrenceMisplaced ==
    /\ scanned = <<"image:", " ", "code:", "1", "\n", "image:", " ", "code:", "1", "\n">>
    /\ new_version = <<"2", "0">>
    /\ kpc = "written"
    /\ contents = <<"image:", " ", "code:", "2", "0", "image:", " ", "code:", "2", "0", "1", "\n">>

\* C29: on macos with no "deps" entry in the output directory,
\* fix_install_names returns Ok at once: no worklist is built, no file is
\* changed and neither otool -l nor install_name_tool is run; and when the
\* entry is there, every file on the worklist is a file of the output
\* directory itself, none of "deps".
C29_NoDepsDirNoRewrite ==
    /\ [][(pc = "fix" /\ target_spec.os = <<"macos">> /\ N_deps \notin DOMAIN entries) =>
              (pc' = "inspect" /\ result' = "Ok" /\ invoked' = invoked
               /\ macho' = macho /\ exit_code' = exit_code)]_vars
    /\ []((target_spec.os = <<"macos">> /\ N_deps \notin DOMAIN entries) =>
              /\ macho = before
              /\ result # "Err"
              /\ dylibs_to_fix = <<>>
              /\ our_libraries = {}
              /\ \A inv \in invoked :
                    /\ inv.tool # "install_name_tool"
                    /\ ~(inv.tool = "otool" /\ inv.op = "-l"))
    /\ []((Rewriting /\ WorklistBuilt) =>
              /\ dylibs_to_fix # <<>>
              /\ \A j \in DOMAIN dylibs_to_fix :
                    /\ Parent(dylibs_to_fix[j]) \in {GivenDir, RealDir}
                    /\ N_deps \notin Range(Split(dylibs_to_fix[j], "/")))

\* A macos build without "deps" has ended well, and the binary still
\* refers to libfoo.dylib by the absolute path it was linked with.
C29_Witness ==
    /\ target_spec.os = <<"macos">>
    /\ N_deps \notin DOMAIN entries
    /\ pc = "built"
    /\ result = "Ok"
    /\ exit_code = 0
    /\ macho = before
    /\ R_foo_abs \in Range(get_dependencies(Otool(Join(GivenDir, N_bin))))

\* ---------------------------------------------------------------------------
\* The dry run: build() under every setting of GH_READWRITE_TOKEN and
\* GITHUB_REF.

InitDryRun ==
    /\ target_spec \in { t \in FixTargets : t.os = <<"linux">> }
    /\ TripleIdle
    /\ FixIdle
    /\ UploadIdle
    /\ OtherIdle
    /\ mpc = "load_config"
    /\ cfg \in Configs
    /\ SoundConfig(cfg)
    /\ cfg.ci
    /\ cfg.os = "linux"
    /\ out_bins = [i \in 1..1 |-> "ok"]
    /\ chk_i = 1
    /\ packaged = <<>>
    /\ done = <<>>
    /\ steps_left = 0
    /\ main_result = "none"
    /\ main_exit = 0

SpecDryRun == InitDryRun /\ [][NextMain]_vars

\* BuildContext::new has returned the context.
ContextBuilt == Len(done) >= 2 /\ done[2] = Stage("context", TRUE)

-----------------------------------------------------------------------------
(* CargoBuildContext::build: libstd is found and copied, the libraries are
   collected, then the install names are fixed *)

\* The toolchain's library directory, and libstd under each suffix.
LibDir == <<"/", "toolchain", "/", "lib">>
N_std(suffix) == <<"lib", "std-", "1a2b">> \o suffix
R_std(suffix) == Join(LibDir, N_std(suffix))

\* What `rustc --print target-libdir` may hold.
LibdirListings == SUBSET { N_std(<<".dylib">>), N_std(<<".so">>), N_std(<<".dll">>) }

\* glob::Pattern::new("libstd-*<dll_suffix>"), matched against a file name
libstd_pattern(name, suffix) ==
    /\ Len(name) >= 2 + Len(suffix)
    /\ StartsWith(name, <<"lib", "std-">>)
    /\ EndsWith(name, suffix)

\* if self.target_spec.os == "linux" || self.target_spec.os == "macos"
CopiesLibstd(os) == os = <<"linux">> \/ os = <<"macos">>

\* The targets of the build: those of the rewriter, and a macos descriptor
\* that does not give "dll-suffix".
LibstdTargets ==
    FixTargets \cup
    { [arch |-> <<"aarch64">>, vendor |-> Some(<<"apple">>), os |-> <<"macos">>,
       env |-> None, dll_suffix |-> DllSuffixOf(None)] }

\* build() after the configured binaries are pushed, at the libstd lookup.
InitLibstd ==
    /\ target_spec \in LibstdTargets
    /\ target_libdir \in LibdirListings
    /\ dir_is_link = FALSE
    /\ bins = <<N_bin>>
    /\ \E barThere \in BOOLEAN, depsThere \in BOOLEAN :
        /\ entries = EntriesFor("file", barThere, "file", depsThere)
        /\ macho = [n \in MachONames(EntriesFor("file", barThere, "file", depsThere)) |->
                      MachOFile(IsDylibName(n), n,
                                IF IsDylibName(n)
                                THEN <<R_std(target_spec.dll_suffix)>>
                                ELSE <<R_foo_abs, R_std(target_spec.dll_suffix)>>)]
    /\ files_to_package = <<Join(GivenDir, N_bin)>>
    /\ pc = "libstd"
    /\ our_libraries = {}
    /\ dylibs_to_fix = <<>>
    /\ bin_i = 1
    /\ cur = 1
    /\ dependencies = <<>>
    /\ verify_deps = <<>>
    /\ invoked = {}
    /\ result = "none"
    /\ exit_code = 0
    /\ runs = 1
    /\ before = macho
    /\ rewritten = macho
    /\ TripleIdle
    /\ UploadIdle
    /\ MainIdle
    /\ ProcIdle /\ ArchiveIdle /\ FormulaIdle /\ TapIdle /\ K8sIdle

LibstdFrame ==
    UNCHANGED <<varsMain, varsProc, varsArchive, varsFormula, varsTap, varsK8s,
                varsUpload, target_spec, varsTriple, dir_is_link, bins,
                our_libraries, dylibs_to_fix, bin_i, cur, dependencies, verify_deps,
                invoked, runs, before, rewritten, target_libdir>>

\* `rustc --print target-libdir`, the lookup of libstd in it, and the copy
\* next to the binary: the process exits when rustc fails, the lookup
\* returns "libstd not found", remove_file's error is dropped and copy's is
\* returned.
CopyLibstdFile ==
    /\ pc = "libstd"
    /\ \E rustc_ok \in BOOLEAN, copy_ok \in BOOLEAN :
        LET found == { n \in target_libdir : libstd_pattern(n, target_spec.dll_suffix) }
        IN  IF ToolBails(rustc_ok)
            THEN /\ pc' = "exited"
                 /\ exit_code' = 1
                 /\ UNCHANGED <<entries, macho, result>>
            ELSE IF found = {}
            THEN /\ pc' = "failed"
                 /\ result' = "Err"
                 /\ UNCHANGED <<entries, macho, exit_code>>
            ELSE IF ~CopiesLibstd(target_spec.os)
            THEN /\ pc' = "libraries"
                 /\ UNCHANGED <<entries, macho, result, exit_code>>
            ELSE IF ~copy_ok
            THEN /\ pc' = "failed"
                 /\ result' = "Err"
                 /\ UNCHANGED <<entries, macho, exit_code>>
            ELSE \E n \in found :
                 /\ entries' = [m \in DOMAIN entries \cup {n} |->
                                   IF m = n THEN File ELSE entries[m]]
                 /\ macho' = [m \in DOMAIN macho \cup {n} |->
                                 IF m = n THEN MachOFile(TRUE, n, <<R_sys>>)
                                 ELSE macho[m]]
                 /\ pc' = "libraries"
                 /\ UNCHANGED <<result, exit_code>>
    /\ UNCHANGED files_to_package
    /\ LibstdFrame

\* "Add other libraries": every lib*<dll_suffix> entry of the output
\* directory is pushed, in the order read_dir gives them.
AddLibraries ==
    /\ pc = "libraries"
    /\ \E io_ok \in BOOLEAN, order \in Orders(PackagedLibs) :
        IF io_ok
        THEN /\ files_to_package' = files_to_package \o order
             /\ pc' = "fix"
             /\ UNCHANGED result
        ELSE /\ pc' = "failed"
             /\ result' = "Err"
             /\ UNCHANGED files_to_package
    /\ UNCHANGED <<entries, macho, exit_code>>
    /\ LibstdFrame

NextLibstd ==
    \/ CopyLibstdFile
    \/ AddLibraries
    \/ FixEnter
    \/ ReadDirFails
    \/ ScanDir
    \/ AddBinary
    \/ GetDependencies
    \/ ChangeDep
    \/ SetId
    \/ Verify
    \/ FixReturn
    \/ Inspect
    \/ RunVersion

SpecLibstd == InitLibstd /\ [][NextLibstd]_vars

\* The libstd the lookup of this target finds.
LibstdName == N_std(target_spec.dll_suffix)

\* Every reference to libstd in a packaged file is the @rpath one.
LibstdReferencesRewritten ==
    \A p \in Range(files_to_package) :
        OpenMachO(p).some =>
            \A d \in Range(get_dependencies(Otool(p))) :
                LastComponent(d) = LibstdName => d = RpathOf(LibstdName)

\* C27: on linux and macos libstd is copied into the output directory
\* before the directory is scanned, so in every successful build libstd is
\* among the packaged libraries and, on macos, is in the owned set with
\* every reference to it rewritten to @rpath; on any other OS it is not
\* copied.
C27_LibstdPackagedAndOwned ==
    /\ (pc # "libstd" /\ ~(target_spec.os \in {<<"linux">>, <<"macos">>}))
          => LibstdName \notin DOMAIN entries
    /\ (pc = "built" /\ target_spec.os \in {<<"linux">>, <<"macos">>}) =>
          /\ Join(GivenDir, LibstdName) \in Range(files_to_package)
          /\ target_spec.os = <<"macos">> =>
                /\ LibstdName \in our_libraries
                /\ LibstdReferencesRewritten

\* A macos build whose descriptor gives no "dll-suffix" ends well with the
\* libstd it found packaged; the rewriter has run and owns libfoo.dylib,
\* but not libstd, and the references to the toolchain's libstd are as
\* they were.
C27_PackagedButNotOwned ==
    /\ target_spec.os = <<"macos">>
    /\ target_spec.dll_suffix = default_dll_suffix
    /\ N_deps \in DOMAIN entries
    /\ pc = "built"
    /\ result = "Ok"
    /\ Join(GivenDir, LibstdName) \in Range(files_to_package)
    /\ N_foo \in our_libraries
    /\ LibstdName \notin our_libraries
    /\ ~LibstdReferencesRewritten

-----------------------------------------------------------------------------
(* HomebrewContext::update_formula to its end: the formula's file *)

InitTap ==
    /\ target_spec \in { t \in FixTargets : t.os = <<"linux">> }
    /\ TripleIdle
    /\ FixIdle
    /\ UploadIdle
    /\ MainIdle
    /\ ProcIdle
    /\ ArchiveIdle
    /\ K8sIdle
    /\ LibstdIdle
    /\ fpc = At("spawn", 1)
    /\ threads = [t \in ThreadNames |-> "unspawned"]
    /\ slots = [t \in ThreadNames |-> Empty]
    /\ writes = {}
    /\ formula = <<>>
    /\ tap_dry_run \in BOOLEAN
    /\ formula_file = <<>>

\* if self.dry_run { info!(..) } else { create_dir_all(parent)?; write(..)? }
\* and Ok(()).
WriteFormula ==
    /\ fpc.at = "generated"
    /\ IF tap_dry_run
       THEN fpc' = At("Ok", 1) /\ UNCHANGED formula_file
       ELSE \E io_ok \in BOOLEAN :
            IF io_ok
            THEN fpc' = At("Ok", 1) /\ formula_file' = formula
            ELSE fpc' = At("Err", Len(FetchThreads) + 1) /\ UNCHANGED formula_file
    /\ UNCHANGED <<threads, slots, writes, formula, tap_dry_run>>
    /\ UNCHANGED <<target_spec, varsTriple, varsDir, macho, varsFix, varsUpload, varsMain,
                   varsProc, varsArchive, varsK8s, varsLibstd>>

NextTap ==
    \/ NextFormula
    \/ WriteFormula

SpecTap == InitTap /\ [][NextTap]_vars

\* C28: when a fetch has failed no formula file is written, and when
\* update_formula returns it returns an error, that of the first failed
\* fetch in the order mac, linux x86_64, linux aarch64, in whatever order
\* the threads ended; the file is written only when all three fetches
\* succeeded and the run is not a dry run.
C28_FirstErrorInFieldOrder ==
    /\ FailedFetches(slots) # {} =>
          /\ formula_file = <<>>
          /\ fpc.at # "Ok"
          /\ fpc.at = "Err" =>
                /\ fpc.i \in FailedFetches(slots)
                /\ \A j \in FailedFetches(slots) : fpc.i <= j
    /\ formula_file # <<>> =>
          /\ \A t \in ThreadNames : slots[t] = BinaryOf(t)
          /\ ~tap_dry_run
          /\ formula_file = slots

\* The aarch64 fetch failed first, the mac fetch failed after it, and the
\* error returned is the mac fetch's; nothing is written.
C28_Witness ==
    /\ fpc = At("Err", 1)
    /\ slots["mac"] = FetchError
    /\ slots["linux_aarch64"] = FetchError
    /\ \E w1 \in writes, w2 \in writes :
          w1.by = "linux_aarch64" /\ w2.by = "mac" /\ w1.n < w2.n
    /\ formula_file = <<>>

-----------------------------------------------------------------------------
(* get_dependencies over the load commands a linked file may carry *)

\* Most load commands the binary of this specification carries.
MaxCmds == 3

\* A reference with a blank in its directory.
R_foo_blank == <<"/", "my", " ", "libs", "/">> \o N_foo

\* The load commands of the binary: segments, an identity, strong and weak
\* references, run paths.
BinaryCmds ==
    { LoadCmd("LC_SEGMENT_64", <<"__TEXT">>),
      LoadCmd("LC_ID_DYLIB", R_foo_abs),
      LoadCmd("LC_LOAD_DYLIB", R_foo_abs),
      LoadCmd("LC_LOAD_DYLIB", R_bar_usr),
      LoadCmd("LC_LOAD_DYLIB", R_foo_blank),
      LoadCmd("LC_LOAD_WEAK_DYLIB", R_bar_usr),
      LoadCmd("LC_RPATH", <<"@executable_path">>) }
CmdLists == UNION { [1..n -> BinaryCmds] : n \in 0..MaxCmds }

InitDeps ==
    /\ target_spec \in { t \in FixTargets : t.os = <<"macos">> }
    /\ dir_is_link = FALSE
    /\ bins = <<N_bin>>
    /\ entries = EntriesFor("file", FALSE, "file", TRUE)
    /\ \E cmds \in CmdLists :
        macho = [n \in MachONames(EntriesFor("file", FALSE, "file", TRUE)) |->
                    IF IsDylibName(n) THEN MachOFile(TRUE, n, <<R_bar_usr>>) ELSE cmds]
    /\ pc = "fix"
    /\ our_libraries = {}
    /\ dylibs_to_fix = <<>>
    /\ bin_i = 1
    /\ cur = 1
    /\ dependencies = <<>>
    /\ verify_deps = <<>>
    /\ invoked = {}
    /\ result = "none"
    /\ exit_code = 0
    /\ runs = 1
    /\ before = macho
    /\ rewritten = macho
    /\ TripleIdle
    /\ UploadIdle
    /\ MainIdle
    /\ OtherIdle

SpecDeps == InitDeps /\ [][NextSuffix]_vars

\* The names of the LC_LOAD_DYLIB commands of a file, in order, each up to
\* its first blank.
LoadDylibNames(cmds) ==
    LET sel == SelectSeq(cmds, LAMBDA c : c.cmd = "LC_LOAD_DYLIB")
    IN  [i \in 1..Len(sel) |-> Head(Split(sel[i].name, " "))]

\* C30: the list get_dependencies returns for a file has one entry for each
\* LC_LOAD_DYLIB command of the file, in the file's order: the second
\* blank-separated word of that command's name line; the name of no other
\* command (LC_ID_DYLIB, LC_LOAD_WEAK_DYLIB, LC_RPATH, a segment) is in it,
\* and no name line gives two entries.
C30_OneEntryPerLoadDylib ==
    [][(pc = "file" /\ pc' = "deps") =>
          dependencies' = LoadDylibNames(macho[OpenMachO(dylibs_to_fix[cur]).val])]_vars

\* The binary carries an identity, a weak reference and a strong one with
\* a blank in it; the list read for it is the strong one's first word alone.
C30_Witness ==
    /\ pc = "deps"
    /\ cur = 2
    /\ before[N_bin] = <<LoadCmd("LC_ID_DYLIB", R_foo_abs),
                         LoadCmd("LC_LOAD_WEAK_DYLIB", R_bar_usr),
                         LoadCmd("LC_LOAD_DYLIB", R_foo_blank)>>
    /\ dependencies = << <<"/", "my">> >>

====
